---- MODULE Spec2Model ----
(***************************************************************************)
(* A model of the chart wrapper of src/AJAYJS/charts/charts.js: the        *)
(* process-wide script/plugin registries, the chart instances with their   *)
(* Render polls, and the normalization pipeline of _buildAndRender.        *)
(*                                                                         *)
(* JavaScript values are tagged records, so that `typeof`, Array.isArray   *)
(* and `??` are decided by the tag as the code decides them:               *)
(*   undefined  [t |-> "undefined"]                                        *)
(*   number     [t |-> "number", n |-> numerator, d |-> denominator]       *)
(*   string     [t |-> "string", v |-> "..."]                              *)
(*   boolean    [t |-> "boolean", v |-> TRUE]                              *)
(*   array      [t |-> "array", v |-> <<...>>]                             *)
(*   object     [t |-> "object", v |-> function from keys to values]       *)
(* An object's own keys are the DOMAIN of its function; a dataset (ds) is   *)
(* such a function, and a key that is not in its DOMAIN reads as undefined.*)
(***************************************************************************)
EXTENDS Integers, Sequences, FiniteSets, TLC

-----------------------------------------------------------------------------
(* JavaScript values *)

Undef == [t |-> "undefined"]
Num(k) == [t |-> "number", n |-> k, d |-> 1]
Frac(k, m) == [t |-> "number", n |-> k, d |-> m]
NaN == [t |-> "number", n |-> 0, d |-> 0]
Str(s) == [t |-> "string", v |-> s]
Bool(b) == [t |-> "boolean", v |-> b]
Arr(s) == [t |-> "array", v |-> s]
Obj(f) == [t |-> "object", v |-> f]

\* The object literal {}: no own keys.
EmptyObj == <<>>

\* ds.key: undefined when the object has no such key.
Get(o, k) == IF k \in DOMAIN o THEN o[k] ELSE Undef

\* a ?? b
Nullish(a, b) == IF a.t \in {"undefined", "null"} THEN b ELSE a

\* typeof a === 'number' ? a : b   (NaN is a number too)
NumberOr(a, b) == IF a.t = "number" THEN a ELSE b

\* typeof a === 'boolean' ? a : b
BooleanOr(a, b) == IF a.t = "boolean" THEN a ELSE b

\* a, whatever it is.
KeepValue(a, b) == a

\* Array.isArray(a) ? a : b
ArrayOr(a, b) == IF a.t = "array" THEN a ELSE b

\* { ...base, ...extra }: the keys of extra win.
Spread(base, extra) == extra @@ base

\* obj.k = v
Assign(o, k, v) == (k :> v) @@ o

\* ...(ds.additionalProps ?? {}): the own keys of the passthrough bag.
AdditionalProps(ds) ==
    LET ap == Get(ds, "additionalProps")
    IN  IF ap.t = "object" THEN ap.v ELSE EmptyObj

-----------------------------------------------------------------------------
(* Chart types and type resolution (_buildAndRender, lines 134-177) *)

\* The 16 documented chart-type tags, 'ohlc' (a case label of the switch),
\* and 'Area' (a tag that differs from its lower-case form).
ChartTypes ==
    {"line", "bar", "scatter", "pie", "doughnut", "area", "bubble", "radar",
     "polarArea", "heatmap", "treemap", "candlestick", "gauge", "funnel",
     "boxplot", "histogram", "ohlc", "Area"}

\* cfg.type.toLowerCase()
ToLowerCase(type) ==
    CASE type = "polarArea" -> "polararea"
      [] type = "Area" -> "area"
      [] OTHER -> type

\* The tags whose renderer comes from an extension module.
ExtensionTags == {"matrix", "treemap", "candlestick", "funnel", "boxplot"}

\* The renderer's registration state: the controllers of Chart.registry and
\* the plugins Chart.plugins.get answers for.
NoRegistrations == [controllers |-> {}, plugins |-> {}]

\* The switch on lowerType (lines 136-163).
AliasedType(type) ==
    LET lowerType == ToLowerCase(type)
    IN  CASE lowerType = "area" -> "line"
          [] lowerType = "heatmap" -> "matrix"
          [] lowerType = "treemap" -> "treemap"
          [] lowerType \in {"candlestick", "ohlc"} -> "candlestick"
          [] lowerType = "gauge" -> "doughnut"
          [] lowerType = "funnel" -> "funnel"
          [] lowerType = "boxplot" -> "boxplot"
          [] lowerType = "histogram" -> "bar"
          [] OTHER -> type

\* pluginRegistered (lines 166-172): the controller registry first, then the
\* plugin lookup.
PluginRegistered(tag, reg) ==
    tag \in reg.controllers \/ tag \in reg.plugins

\* effectiveType as handed to the renderer (lines 136-177).
EffectiveTypeNoFallback(type, reg) == AliasedType(type)

EffectiveType(type, reg) ==
    LET aliased == AliasedType(type)
    IN  IF aliased \in ExtensionTags /\ ~PluginRegistered(aliased, reg)
        THEN "bar"
        ELSE aliased

-----------------------------------------------------------------------------
(* Palette (_generatePalette, lines 375-386) *)

lightPalette ==
    <<"#e63946", "#f1faee", "#a8dadc", "#457b9d", "#1d3557",
      "#ffb703", "#fb8500", "#023047", "#8ecae6", "#219ebc">>

darkPalette ==
    <<"#ff4d4d", "#ffaa4d", "#4dff88", "#4d94ff", "#c44dff",
      "#ff4dc4", "#4dffef", "#ffd24d", "#8aff4d", "#ff8f4d">>

\* Array.from({ length: n }, (_, i) => base[i % base.length]); sequences are
\* 1-based, so element i of the code is element i + 1 here.
GeneratePaletteNoCycle(n, theme) ==
    LET base == IF theme = "light" THEN lightPalette ELSE darkPalette
    IN  [i \in 1..n |-> base[IF i > Len(base) THEN Len(base) ELSE i]]

GeneratePalette(n, theme) ==
    LET base == IF theme = "light" THEN lightPalette ELSE darkPalette
    IN  [i \in 1..n |-> base[((i - 1) % Len(base)) + 1]]

-----------------------------------------------------------------------------
(* Histogram binning (_buildHistogramDataset, lines 520-573) *)

\* Numbers are exact fractions n/d with d > 0; d = 0 marks the numbers that
\* are not finite: 1/0 is Infinity, -1/0 is -Infinity and 0/0 is NaN.
Infinity == [t |-> "number", n |-> 1, d |-> 0]
IsNaN(a) == a.d = 0 /\ a.n = 0
IsFinite(a) == a.d > 0

\* a < b, a === b and a <= b on numbers: false when an operand is NaN.
NumLess(a, b) ==
    /\ ~IsNaN(a)
    /\ ~IsNaN(b)
    /\ IF a.d = 0 /\ b.d = 0 THEN a.n < b.n ELSE a.n * b.d < b.n * a.d
NumEq(a, b) ==
    /\ ~IsNaN(a)
    /\ ~IsNaN(b)
    /\ IF a.d = 0 /\ b.d = 0 THEN a.n = b.n ELSE a.n * b.d = b.n * a.d
NumLeq(a, b) == NumLess(a, b) \/ NumEq(a, b)

\* a + b and a * b on numbers: Infinity - Infinity and 0 * Infinity are NaN.
Sign(k) == IF k > 0 THEN 1 ELSE IF k < 0 THEN -1 ELSE 0
NumPlus(a, b) ==
    IF IsNaN(a) \/ IsNaN(b) THEN NaN
    ELSE IF a.d = 0 /\ b.d = 0 THEN (IF a.n = b.n THEN a ELSE NaN)
    ELSE IF a.d = 0 THEN a
    ELSE IF b.d = 0 THEN b
    ELSE Frac(a.n * b.d + b.n * a.d, a.d * b.d)
NumTimes(a, b) ==
    IF IsNaN(a) \/ IsNaN(b) THEN NaN
    ELSE IF a.d = 0 \/ b.d = 0
    THEN Frac(Sign(a.n) * Sign(b.n), 0)
    ELSE Frac(a.n * b.n, a.d * b.d)
NumMinus(a, b) == NumPlus(a, NumTimes(Num(-1), b))

\* ds.data.filter(v => typeof v === 'number' && !isNaN(v)), or [] (line 521).
RawValues(ds) ==
    LET data == Get(ds, "data")
    IN  IF data.t = "array"
        THEN SelectSeq(data.v, LAMBDA v : v.t = "number" /\ ~IsNaN(v))
        ELSE <<>>

\* Math.min(...values), Math.max(...values) of a non-empty sequence.
MinOf(values) ==
    CHOOSE m \in {values[i] : i \in DOMAIN values} :
        \A i \in DOMAIN values : NumLeq(m, values[i])

MaxOf(values) ==
    CHOOSE m \in {values[i] : i \in DOMAIN values} :
        \A i \in DOMAIN values : NumLeq(values[i], m)

\* edges.slice().sort((a, b) => a - b): the ascending permutation.
RECURSIVE InsertSorted(_, _)
InsertSorted(sorted, e) ==
    IF sorted = <<>> THEN <<e>>
    ELSE IF NumLess(e, Head(sorted)) THEN <<e>> \o sorted
    ELSE <<Head(sorted)>> \o InsertSorted(Tail(sorted), e)

RECURSIVE SortAscending(_)
SortAscending(s) ==
    IF s = <<>> THEN <<>>
    ELSE InsertSorted(SortAscending(SubSeq(s, 1, Len(s) - 1)), s[Len(s)])

\* typeof ds.bins === 'number' && ds.bins > 0 ? ds.bins : 10 (line 528).
DefaultBinCount == 10

BinCount(ds) ==
    LET bins == Get(ds, "bins")
    IN  IF bins.t = "number" /\ NumLess(Num(0), bins)
        THEN bins
        ELSE Num(DefaultBinCount)

\* The explicit-edges branch without line 534: the maximum is never appended.
ExplicitEdgesNoAppend(binEdges, minVal, maxVal) ==
    LET sorted == SortAscending(binEdges)
    IN  IF NumLess(minVal, sorted[1]) THEN <<minVal>> \o sorted ELSE sorted

\* The explicit-edges branch (lines 531-534).
ExplicitEdges(binEdges, minVal, maxVal) ==
    LET sorted == SortAscending(binEdges)
        low == IF NumLess(minVal, sorted[1]) THEN <<minVal>> \o sorted ELSE sorted
    IN  IF NumLess(low[Len(low)], maxVal) THEN Append(low, maxVal) ELSE low

\* The computed-edges branch (lines 536-542): minVal + i * binWidth for the
\* integers i = 0, 1, .. that are <= binCount (a finite number > 0, not
\* necessarily an integer), the last edge raised to maxVal when it falls
\* short.
ComputedEdges(binCount, minVal, maxVal) ==
    LET binWidth == NumTimes(NumMinus(maxVal, minVal), Frac(binCount.d, binCount.n))
        last == (binCount.n \div binCount.d) + 1
        raw == [i \in 1..last |-> NumPlus(minVal, NumTimes(Num(i - 1), binWidth))]
    IN  IF NumLess(raw[last], maxVal)
        THEN [raw EXCEPT ![last] = maxVal]
        ELSE raw

HistogramEdges(ds, values) ==
    LET binEdges == Get(ds, "binEdges")
    IN  IF binEdges.t = "array" /\ Len(binEdges.v) >= 2
        THEN ExplicitEdges(binEdges.v, MinOf(values), MaxOf(values))
        ELSE ComputedEdges(BinCount(ds), MinOf(values), MaxOf(values))

\* The bin a value is counted in (lines 546-556), 0 when it is counted in none:
\* the first i with edges[i] <= val < edges[i+1], else the last bin when val
\* equals the final edge.
BinOf(val, edges) ==
    LET hits == {i \in 1..(Len(edges) - 1) :
                    NumLeq(edges[i], val) /\ NumLess(val, edges[i + 1])}
    IN  IF hits # {} THEN CHOOSE i \in hits : \A j \in hits : i <= j
        ELSE IF Len(edges) >= 2 /\ NumEq(val, edges[Len(edges)])
        THEN Len(edges) - 1
        ELSE 0

BinFrequency(values, edges) ==
    [i \in 1..(Len(edges) - 1) |->
        Cardinality({j \in DOMAIN values : BinOf(values[j], edges) = i})]

\* x.toFixed(2): the nearest hundredth (the larger one on a tie) as a count
\* of hundredths, and the text "Infinity", "-Infinity" or "NaN" of a number
\* that is not finite.
ToFixed2(a) ==
    IF IsFinite(a)
    THEN [text |-> "digits", hundredths |-> (200 * a.n + a.d) \div (2 * a.d)]
    ELSE [text |-> IF IsNaN(a) THEN "NaN"
                   ELSE IF a.n > 0 THEN "Infinity" ELSE "-Infinity",
          hundredths |-> 0]

\* `${edges[i].toFixed(2)} - ${edges[i + 1].toFixed(2)}` (line 559)
BinLabel(lo, hi) == [t |-> "string", lo |-> ToFixed2(lo), hi |-> ToFixed2(hi)]

BuildHistogramDataset(ds, defaultColor) ==
    LET values == RawValues(ds)
    IN  IF values = <<>>
        THEN [label |-> Nullish(Get(ds, "label"), Str("Histogram")),
              data |-> Arr(<<>>),
              backgroundColor |-> defaultColor]
        ELSE LET edges == HistogramEdges(ds, values)
                 freq == BinFrequency(values, edges)
                 dataArray == [i \in 1..(Len(edges) - 1) |->
                                  Obj([x |-> BinLabel(edges[i], edges[i + 1]),
                                       y |-> Num(freq[i])])]
             IN  Spread(
                   [label |-> Nullish(Get(ds, "label"), Str("Histogram")),
                    data |-> Arr(dataArray),
                    backgroundColor |-> Nullish(Get(ds, "backgroundColor"), defaultColor),
                    borderColor |-> Nullish(Get(ds, "borderColor"), defaultColor),
                    borderWidth |-> NumberOr(Get(ds, "borderWidth"), Num(1)),
                    barPercentage |-> Num(1),
                    categoryPercentage |-> Num(1)],
                   AdditionalProps(ds))

-----------------------------------------------------------------------------
(* Dataset normalization (_normalizeDataset, lines 269-366) *)

\* a - b and Math.max(0, a) on numbers; NaN when an operand is no number.
JsMinus(a, b) ==
    IF a.t # "number" \/ b.t # "number" THEN NaN ELSE NumMinus(a, b)

JsMaxZero(a) ==
    IF IsNaN(a) THEN NaN ELSE IF a.n < 0 THEN Num(0) ELSE a

\* The object `base` (lines 270-277).
BaseDataset(ds, defaultColor) ==
    Spread(
      [label |-> Nullish(Get(ds, "label"), Str("")),
       data |-> ArrayOr(Get(ds, "data"), Arr(<<>>)),
       backgroundColor |-> Nullish(Get(ds, "backgroundColor"), defaultColor),
       borderColor |-> Nullish(Get(ds, "borderColor"), defaultColor),
       borderWidth |-> NumberOr(Get(ds, "borderWidth"), Num(2))],
      AdditionalProps(ds))

\* case 'line', 'scatter', 'radar' (lines 280-286) and case 'area' (287-291):
\* the three fields are assigned after the passthrough bag was spread.
PointStyled(base, ds, defaultFill) ==
    Assign(Assign(Assign(base,
        "pointRadius", NumberOr(Get(ds, "pointRadius"), Num(4))),
        "fill", BooleanOr(Get(ds, "fill"), Bool(defaultFill))),
        "tension", NumberOr(Get(ds, "tension"), Frac(2, 5)))

\* case 'pie', 'doughnut', 'polararea' (lines 292-298)
PieStyled(base, ds, defaultColor) ==
    Assign(Assign(Assign(base,
        "backgroundColor",
            ArrayOr(Get(ds, "backgroundColor"), Arr(<<defaultColor>>))),
        "hoverOffset", NumberOr(Get(ds, "hoverOffset"), Num(4))),
        "borderWidth", NumberOr(Get(ds, "borderWidth"), Num(2)))

\* case 'bubble' (lines 299-301)
BubbleStyled(base, ds) ==
    LET radius == Get(ds, "radius")
    IN  Assign(base, "radius",
               IF radius.t \in {"number", "array"} THEN radius ELSE Num(5))

\* case 'candlestick', 'ohlc' (lines 304-313)
CandlestickDataset(base, ds) ==
    Spread(
      [label |-> Nullish(Get(ds, "label"), Str("OHLC")),
       data |-> base.data,
       rising |-> Obj([color |-> Nullish(Get(ds, "risingColor"), Str("#26a69a"))]),
       falling |-> Obj([color |-> Nullish(Get(ds, "fallingColor"), Str("#ef5350"))]),
       neutral |-> Obj([color |-> Nullish(Get(ds, "neutralColor"), Str("#999999"))])],
      AdditionalProps(ds))

\* case 'heatmap' (lines 314-322)
HeatmapDataset(base, ds, defaultColor) ==
    Spread(
      [label |-> Nullish(Get(ds, "label"), Str("Heatmap")),
       data |-> base.data,
       backgroundColor |-> Nullish(Get(ds, "backgroundColor"), defaultColor),
       borderColor |-> Nullish(Get(ds, "borderColor"), defaultColor),
       borderWidth |-> NumberOr(Get(ds, "borderWidth"), Num(1))],
      AdditionalProps(ds))

\* case 'treemap' (lines 323-333); theme is this._config.theme.
TreemapDataset(base, ds, theme) ==
    Spread(
      [label |-> Nullish(Get(ds, "label"), Str("Treemap")),
       data |-> base.data,
       key |-> Nullish(Get(ds, "key"), Str("value")),
       groups |-> ArrayOr(Get(ds, "groups"), Arr(<<>>)),
       backgroundColor |-> base.backgroundColor,
       spacing |-> NumberOr(Get(ds, "spacing"), Num(2)),
       fontColor |-> Nullish(Get(ds, "fontColor"),
                             IF theme = "light" THEN Str("#000000") ELSE Str("#ffffff"))],
      AdditionalProps(ds))

\* case 'boxplot' (lines 334-343)
BoxplotDataset(base, ds) ==
    Spread(
      [label |-> Nullish(Get(ds, "label"), Str("Boxplot")),
       data |-> base.data,
       padding |-> NumberOr(Get(ds, "padding"), Num(10)),
       itemRadius |-> NumberOr(Get(ds, "itemRadius"), Num(2)),
       outlierColor |-> Nullish(Get(ds, "outlierColor"), Str("#777777")),
       itemStyle |-> Nullish(Get(ds, "itemStyle"), Str("circle"))],
      AdditionalProps(ds))

\* case 'gauge' (lines 344-357)
GaugeData(ds) ==
    LET data == Get(ds, "data")
    IN  IF data.t = "array" /\ Len(data.v) >= 1
        THEN LET max == IF Len(data.v) >= 2 THEN Nullish(data.v[2], Num(100))
                        ELSE Num(100)
             IN  Arr(<<data.v[1], JsMaxZero(JsMinus(max, data.v[1]))>>)
        ELSE Arr(<<Num(0), Num(100)>>)

GaugeDataset(ds, defaultColor) ==
    Spread(
      [label |-> Nullish(Get(ds, "label"), Str("Gauge")),
       data |-> GaugeData(ds),
       backgroundColor |-> Nullish(Get(ds, "backgroundColor"),
                                   Arr(<<defaultColor, Str("#e0e0e0")>>)),
       borderWidth |-> Num(0),
       circumference |-> NumberOr(Get(ds, "circumference"), Num(180)),
       rotation |-> NumberOr(Get(ds, "rotation"), Num(-90)),
       cutout |-> Nullish(Get(ds, "cutout"), Str("80%"))],
      AdditionalProps(ds))

NormalizeDataset(ds, defaultColor, lowerType, theme) ==
    LET base == BaseDataset(ds, defaultColor)
    IN  CASE lowerType \in {"line", "scatter", "radar"} ->
                PointStyled(base, ds, FALSE)
          [] lowerType = "area" -> PointStyled(base, ds, TRUE)
          [] lowerType \in {"pie", "doughnut", "polararea"} ->
                PieStyled(base, ds, defaultColor)
          [] lowerType = "bubble" -> BubbleStyled(base, ds)
          [] lowerType = "histogram" -> BuildHistogramDataset(ds, defaultColor)
          [] lowerType \in {"candlestick", "ohlc"} -> CandlestickDataset(base, ds)
          [] lowerType = "heatmap" -> HeatmapDataset(base, ds, defaultColor)
          [] lowerType = "treemap" -> TreemapDataset(base, ds, theme)
          [] lowerType = "boxplot" -> BoxplotDataset(base, ds)
          [] lowerType = "gauge" -> GaugeDataset(ds, defaultColor)
          [] OTHER -> base

\* _prepareLabels without its histogram branch.
PrepareLabelsOfCaller(labels, lowerType, datasets) == labels

\* _prepareLabels (lines 368-373): datasets[0]?.data.map(item => item.x) ?? []
PrepareLabels(labels, lowerType, datasets) ==
    IF lowerType = "histogram"
    THEN IF Len(datasets) >= 1
         THEN [i \in 1..Len(datasets[1].data.v) |-> datasets[1].data.v[i].v.x]
         ELSE <<>>
    ELSE labels

-----------------------------------------------------------------------------
(* Theme and option merging (_deepMerge 388-405, _mergeThemeOptions 407-518) *)

\* null (typeof null === 'object', and Array.isArray(null) is false).
Null == [t |-> "null"]

\* The key map of { ...value }: no keys for null.
SpreadOf(value) == IF value.t = "object" THEN value.v ELSE EmptyObj

\* _deepMerge(target, source) throws a TypeError: `key in target` (line 395)
\* is evaluated with target null. target is a value (an object or null),
\* source a key map.
RECURSIVE DeepMergeThrows(_, _)
DeepMergeThrows(target, source) ==
    \E key \in DOMAIN source :
        /\ source[key].t = "object"
        /\ IF target.t = "null" THEN TRUE
           ELSE /\ key \in DOMAIN target.v
                /\ target.v[key].t \in {"object", "null"}
                /\ DeepMergeThrows(target.v[key], source[key].v)

\* `out` of _deepMerge(target, source) on the key maps of two objects, for a
\* call that does not throw. The test of target[key] (lines 396-397) lets
\* null through.
DeepMergeFromEmpty(target, source) ==
    [key \in DOMAIN source |-> source[key]]

RECURSIVE DeepMerge(_, _)
DeepMerge(target, source) ==
    [key \in DOMAIN target \cup DOMAIN source |->
        IF key \notin DOMAIN source THEN target[key]
        ELSE IF /\ source[key].t = "object"
                /\ key \in DOMAIN target
                /\ target[key].t \in {"object", "null"}
             THEN Obj(DeepMerge(SpreadOf(target[key]), source[key].v))
             ELSE source[key]]

\* userOpts.a?.b?.c: undefined as soon as a step is missing.
RECURSIVE Path(_, _)
Path(value, keys) ==
    IF keys = <<>> THEN value
    ELSE IF value.t = "object" /\ Head(keys) \in DOMAIN value.v
         THEN Path(value.v[Head(keys)], Tail(keys))
         ELSE Undef

ArialFont(size) == Obj([size |-> size, family |-> Str("Arial, sans-serif")])

\* One axis of defaultOptions.scales (lines 473-493).
AxisOptions(axis, userOpts, tickColor, gridColor, axisLabelColor) ==
    [ticks |-> Obj([color |-> Str(tickColor), font |-> ArialFont(Num(12))]),
     grid |-> Obj([color |-> Str(gridColor), borderColor |-> Str(gridColor)]),
     title |-> Obj([display |-> Nullish(Path(Obj(userOpts), <<"scales", axis, "title", "display">>),
                                        Bool(FALSE)),
                    text |-> Nullish(Path(Obj(userOpts), <<"scales", axis, "title", "text">>),
                                     Str("")),
                    color |-> Str(axisLabelColor),
                    font |-> ArialFont(Num(14))])]

\* defaultOptions as built at lines 415-501. The two tooltip callbacks are
\* opaque functions, held as the strings naming them.
DefaultOptions(theme, titleText, userOpts) ==
    LET isLight == theme = "light"
        gridColor == IF isLight THEN "rgba(224, 224, 224, 0.7)" ELSE "rgba(51, 51, 51, 0.7)"
        tickColor == IF isLight THEN "#333333" ELSE "#dddddd"
        bgColor == IF isLight THEN "#ffffff" ELSE "#1e1e2f"
        textColor == IF isLight THEN "#222222" ELSE "#ffffff"
        axisLabelColor == IF isLight THEN "#555555" ELSE "#aaaaaa"
        opts == Obj(userOpts)
        spreadOf(v) == IF v.t = "object" THEN v.v ELSE EmptyObj
    IN  [responsive |-> Bool(TRUE),
         maintainAspectRatio |-> Bool(FALSE),
         animation |-> Obj([duration |-> Num(700)]),
         plugins |-> Obj(
           [title |-> Obj(
              [display |-> Bool(titleText # ""),
               text |-> Str(titleText),
               color |-> Str(textColor),
               font |-> Obj([size |-> Num(20), weight |-> Str("500"),
                             family |-> Str("Arial, sans-serif")]),
               padding |-> Obj([top |-> Num(12), bottom |-> Num(20)])]),
            legend |-> Obj(
              [display |-> Bool(TRUE),
               labels |-> Obj(Spread([color |-> Str(textColor), font |-> ArialFont(Num(13))],
                                     spreadOf(Path(opts, <<"legendCallbacks">>))))]),
            tooltip |-> Obj(
              [enabled |-> Bool(TRUE),
               backgroundColor |-> Str(IF isLight THEN "rgba(255,255,255,0.9)"
                                                  ELSE "rgba(50,50,60,0.9)"),
               titleColor |-> Str(textColor),
               bodyColor |-> Str(textColor),
               borderColor |-> Str(IF isLight THEN "#ccc" ELSE "#444"),
               borderWidth |-> Num(1),
               cornerRadius |-> Num(4),
               displayColors |-> Bool(TRUE),
               callbacks |-> Obj(Spread([title |-> Str("<function title>"),
                                         label |-> Str("<function label>")],
                                        spreadOf(Path(opts, <<"tooltipCallbacks">>)))),
               titleFont |-> ArialFont(Num(14)),
               bodyFont |-> ArialFont(Num(12))]),
            datalabels |-> Obj(Spread(
              [display |-> Nullish(Path(opts, <<"enableDataLabels">>),
                                   Nullish(Path(opts, <<"plugins", "datalabels", "display">>),
                                           Bool(FALSE))),
               color |-> Nullish(Path(opts, <<"plugins", "datalabels", "color">>),
                                 Str(textColor)),
               font |-> ArialFont(Nullish(Path(opts, <<"plugins", "datalabels", "font", "size">>),
                                          Num(12))),
               align |-> Nullish(Path(opts, <<"plugins", "datalabels", "align">>), Str("center")),
               anchor |-> Nullish(Path(opts, <<"plugins", "datalabels", "anchor">>), Str("center"))],
              spreadOf(Path(opts, <<"plugins", "datalabels">>))))]),
         layout |-> Obj([padding |-> Obj([top |-> Num(10), right |-> Num(10),
                                          bottom |-> Num(10), left |-> Num(10)])]),
         scales |-> Obj(
           [x |-> Obj(AxisOptions("x", userOpts, tickColor, gridColor, axisLabelColor)),
            y |-> Obj(Assign(AxisOptions("y", userOpts, tickColor, gridColor, axisLabelColor),
                             "beginAtZero", Bool(TRUE)))]),
         backgroundColor |-> Str(bgColor),
         font |-> Obj([family |-> Str("Arial, sans-serif"), size |-> Num(12),
                       color |-> Str(textColor)])]

\* The two type-specific overrides of the defaults (lines 503-515).
TypeOverrides(defaults, chartType) ==
    IF chartType = "gauge"
    THEN LET plugins == defaults.plugins.v
             tooltip == Assign(plugins.tooltip.v, "enabled", Bool(FALSE))
             legend == Assign(plugins.legend.v, "display", Bool(FALSE))
         IN  Spread(defaults,
               [scales |-> Obj([x |-> Obj([display |-> Bool(FALSE)]),
                                y |-> Obj([display |-> Bool(FALSE)])]),
                plugins |-> Obj(Spread(plugins, [tooltip |-> Obj(tooltip),
                                                 legend |-> Obj(legend)])),
                cutout |-> Str("80%"),
                circumference |-> Num(180),
                rotation |-> Num(-90)])
    ELSE IF chartType \in {"pie", "doughnut", "polararea"}
    THEN Assign(defaults, "scales", Obj(EmptyObj))
    ELSE defaults

\* _mergeThemeOptions(theme, titleText, userOpts, chartType) for a call that
\* does not throw; userOpts is cfg.options, an object.
MergeThemeOptions(theme, titleText, userOpts, chartType) ==
    DeepMerge(TypeOverrides(DefaultOptions(theme, titleText, SpreadOf(userOpts)), chartType),
              SpreadOf(userOpts))

\* _mergeThemeOptions throws a TypeError: userOpts.legendCallbacks (line 432)
\* is read with userOpts null, or the _deepMerge of line 517 throws.
MergeThemeOptionsThrows(theme, titleText, userOpts, chartType) ==
    \/ userOpts.t = "null"
    \/ DeepMergeThrows(
          Obj(TypeOverrides(DefaultOptions(theme, titleText, SpreadOf(userOpts)), chartType)),
          SpreadOf(userOpts))

-----------------------------------------------------------------------------
(* The build of one render (_buildAndRender, lines 131-213) *)

\* chartConfig as handed to `new ChartJS(ctx, chartConfig)`. cfg is
\* this._config with cfg.datasets already read from the array it refers to.
BuildChartConfig(cfg, datasets, reg) ==
    LET lowerType == ToLowerCase(cfg.type)
        palette == IF cfg.palette # <<>>
                   THEN cfg.palette
                   ELSE GeneratePalette(Len(datasets), cfg.theme)
        normalizedDatasets ==
            [i \in 1..Len(datasets) |->
                NormalizeDataset(datasets[i],
                                 Str(palette[((i - 1) % Len(palette)) + 1]),
                                 lowerType, cfg.theme)]
    IN  [type |-> EffectiveType(cfg.type, reg),
         data |-> [labels |-> PrepareLabels(cfg.labels, lowerType, normalizedDatasets),
                   datasets |-> normalizedDatasets],
         options |-> MergeThemeOptions(cfg.theme, cfg.titleText, cfg.options, lowerType)]

-----------------------------------------------------------------------------
(* Bounds of the model *)

\* Chart instances the page constructs.
MaxCharts == 2
\* Render polls (setTimeout callbacks) one chart has outstanding.
MaxPending == 2
\* Datasets one datasets array holds.
MaxDatasets == 2
\* Fields the caller sets on the dataset handed to the normalizer.
MaxFields == 2
\* Extensions registered with the renderer in the type-resolution runs.
MaxExtensions == 2
\* Plugins the page registers with registerPlugin.
MaxPlugins == 1
\* Mutation operations (addDataset .. updateAriaLabel) the page calls.
MaxMutations == 2
\* Chart instances the page constructs in the runs of the Render readiness.
MaxReadyCharts == 1
\* Colors of the explicit palette a caller supplies.
MaxPalette == 2
\* Datasets a chart has besides the first in the palette runs (more than the
\* ten colors of a built-in table).
MaxCount == 11
\* Nesting depth of the option trees handed to _deepMerge.
MaxDepth == 2
\* Entries the caller puts in the data of a histogram dataset.
MaxValues == 2
\* Charts constructed in the runs of the mutation operations alone.
MaxEditCharts == 1
\* Calls of toggleTheme after the first render of a chart.
MaxToggles == 2
\* Calls of destroy() on one chart.
MaxDestroys == 2

Charts == 1..MaxCharts

-----------------------------------------------------------------------------
(* The process-wide state and the chart instances *)

VARIABLES
    chartIdent,          \* what the identifier `Chart` of lines 11, 64, 69 denotes
    chartCoreInitiated,  \* _chartCoreInitiated (line 1)
    loadedScripts,       \* _loadedScripts (line 2)
    registeredPlugins,   \* _registeredPlugins (line 3): name -> descriptor
    windowChart,         \* whether window.Chart, the renderer handle, exists
    registry,            \* the renderer's registered controllers and plugins
    scriptElements,      \* <script> elements appended to document.head, per src
    loading,             \* script loads in flight: load -> how many
    registerCalls,       \* calls of window.Chart.register, per extension
    thrown,              \* the errors thrown into caller code so far
    canvas,              \* the attributes of each chart's <canvas>
    status,              \* per chart: "none", "live" (constructed), "destroyed"
    config,              \* this._config
    chartInstance,       \* this._chartInstance
    pending,             \* setTimeout(waitForChartAndPlugins, 50) outstanding
    observing,           \* whether this._resizeObserver observes the canvas
    resized,             \* whether resize() was called on the rendered instance
    renderer,            \* per chart: the renderer objects `new ChartJS` has made
    heap,                \* the datasets arrays, by identity
    mutations,           \* mutation operations the page has called
    nType, nTheme, nDs, nReg, nOut,  \* the inputs and the result of one render
    nPalette,            \* cfg.palette of that render
    nLabels,             \* cfg.labels of that render
    nCount,              \* how many datasets that render has besides nDs
    mergeTarget, mergeSource, mergeOut   \* one _deepMerge(target, source) call

lifeVars ==
    <<chartIdent, chartCoreInitiated, loadedScripts, registeredPlugins,
      windowChart, registry, scriptElements, loading, registerCalls,
      thrown, canvas, status, config, chartInstance, pending,
      observing, resized, renderer, heap, mutations>>

mergeVars == <<mergeTarget, mergeSource, mergeOut>>

pureVars == <<nType, nTheme, nDs, nReg, nOut, nPalette, nLabels, nCount, mergeVars>>

vars == <<lifeVars, pureVars>>

coreChartJsUrl == "https://cdn.jsdelivr.net/npm/chart.js"

\* The descriptors the page hands to registerPlugin. The first leaves
\* globalRegister to its default; the second opts out of it.
PluginInputs ==
    {[name |-> "matrix", src |-> "chartjs-chart-matrix.js"],
     [name |-> "funnel", src |-> "chartjs-plugin-funnel.js", globalRegister |-> FALSE]}

PluginNames == {p.name : p \in PluginInputs}
Srcs == {coreChartJsUrl} \cup {p.src : p \in PluginInputs}

\* What window.Chart.register does with an extension: a chart-type module
\* registers a controller, a plugin module a plugin.
ExtensionKind(name) == IF name = "funnel" THEN "plugin" ELSE "controller"

RegisterWithRenderer(reg, names) ==
    [controllers |-> reg.controllers \cup {n \in names : ExtensionKind(n) = "controller"},
     plugins |-> reg.plugins \cup {n \in names : ExtensionKind(n) = "plugin"}]

\* The datasets arrays: the caller's own array, which it may hand to several
\* constructors, and the array literal [] each constructor creates otherwise.
CallerArray == <<"caller", 0>>
OwnArray(c) == <<"own", c>>
ArrayIds == {CallerArray} \cup {OwnArray(c) : c \in Charts}

\* The datasets and inputs of the lifecycle runs.
LifeDatasets ==
    {[label |-> Str("A"), data |-> Arr(<<Num(1), Num(2)>>)],
     [data |-> Arr(<<Num(3)>>), fill |-> Bool(FALSE)]}

LifeTypes == {"line", "heatmap"}

\* initialConfig objects: keys that are absent read as undefined.
InitialConfigs ==
    {EmptyObj,
     [type |-> Str("heatmap"), datasets |-> [t |-> "array", ref |-> CallerArray],
      ariaLabel |-> Str("chart")]}

\* _buildAndRender() throws before it has a chartConfig: the option merge of
\* line 185 throws. cfg is this._config.
BuildThrows(cfg) ==
    MergeThemeOptionsThrows(cfg.theme, cfg.titleText, cfg.options, ToLowerCase(cfg.type))

-----------------------------------------------------------------------------
(* Script loading and plugin registration (lines 6-47, 62-88) *)

CoreLoad == [kind |-> "core", name |-> "", src |-> coreChartJsUrl]
\* A plugin load started by a constructor's core callback (line 69, "init")
\* or by registerPlugin (line 11, "reg").
PluginLoad(kind, name, src) == [kind |-> kind, name |-> name, src |-> src]

AddLoads(bag, loads) ==
    [l \in DOMAIN bag \cup loads |->
        (IF l \in DOMAIN bag THEN bag[l] ELSE 0) + (IF l \in loads THEN 1 ELSE 0)]

RemoveLoad(bag, load) ==
    [l \in {k \in DOMAIN bag : k # load \/ bag[k] > 1} |->
        IF l = load THEN bag[l] - 1 ELSE bag[l]]

\* _loadScript(src) appends a script element unless src is in _loadedScripts
\* (lines 31-46); `loaded` is _loadedScripts at the call.
AppendsElement(src, loaded) == src \notin loaded

\* The srcs of `names` counted into scriptElements, one element per call.
WithElements(elements, names) ==
    [s \in Srcs |->
        elements[s] + Cardinality({n \in names : registeredPlugins[n].src = s})]

CountRegisterCalls(calls, names) ==
    [n \in PluginNames |-> calls[n] + (IF n \in names THEN 1 ELSE 0)]

\* allRequiredPluginsLoaded, and the condition of line 122.
AllRequiredPluginsLoaded ==
    \A n \in DOMAIN registeredPlugins :
        /\ registeredPlugins[n].src \in loadedScripts
        /\ \/ ~registeredPlugins[n].globalRegister
           \/ n \in registry.controllers
           \/ n \in registry.plugins

ReadyToRenderCoreOnly == windowChart /\ chartCoreInitiated

ReadyToRender == windowChart /\ chartCoreInitiated /\ AllRequiredPluginsLoaded

\* static registerPlugin(plugin) (lines 6-28).
RegisterPlugin(plugin) ==
    /\ \/ plugin.name \in DOMAIN registeredPlugins
       \/ Cardinality(DOMAIN registeredPlugins) < MaxPlugins
    /\ IF plugin.name \in DOMAIN registeredPlugins
       THEN UNCHANGED <<registeredPlugins, scriptElements, loading, registry, registerCalls>>
       ELSE /\ registeredPlugins' =
                  (plugin.name :> Spread([globalRegister |-> TRUE], plugin))
                      @@ registeredPlugins
            /\ IF windowChart /\ chartCoreInitiated
               THEN IF AppendsElement(plugin.src, loadedScripts)
                    THEN /\ scriptElements' =
                               [scriptElements EXCEPT ![plugin.src] = @ + 1]
                         /\ loading' = AddLoads(loading,
                                {PluginLoad("reg", plugin.name, plugin.src)})
                         /\ UNCHANGED <<registry, registerCalls>>
                    ELSE \* Promise.resolve(): the callback registers at once
                         /\ registry' = RegisterWithRenderer(registry, {plugin.name})
                         /\ registerCalls' = CountRegisterCalls(registerCalls, {plugin.name})
                         /\ UNCHANGED <<scriptElements, loading>>
               ELSE UNCHANGED <<scriptElements, loading, registry, registerCalls>>
    /\ UNCHANGED <<chartIdent, chartCoreInitiated, loadedScripts, windowChart,
                   thrown, canvas, status, config, chartInstance,
                   pending, observing, resized, renderer, heap, mutations, pureVars>>

\* s.onload of the core script, then the callback of lines 65-86: the script
\* has defined window.Chart, the core is marked initiated, and every plugin
\* of the registry is loaded (or, when its script is loaded, registered).
CoreScriptLoaded ==
    /\ CoreLoad \in DOMAIN loading
    /\ loadedScripts' = loadedScripts \cup {coreChartJsUrl}
    /\ windowChart' = TRUE
    /\ chartCoreInitiated' = TRUE
    /\ LET names == DOMAIN registeredPlugins
           toLoad == {n \in names :
                         AppendsElement(registeredPlugins[n].src, loadedScripts')}
           toRegister == {n \in names \ toLoad : registeredPlugins[n].globalRegister}
       IN  /\ scriptElements' = WithElements(scriptElements, toLoad)
           /\ loading' = AddLoads(RemoveLoad(loading, CoreLoad),
                            {PluginLoad("init", n, registeredPlugins[n].src) : n \in toLoad})
           /\ registry' = RegisterWithRenderer(registry, toRegister)
           /\ registerCalls' = CountRegisterCalls(registerCalls, toRegister)
    /\ UNCHANGED <<chartIdent, registeredPlugins, thrown, canvas,
                   status, config, chartInstance, pending, observing, resized, renderer, heap, mutations, pureVars>>

\* s.onload of a plugin script, then the callback of lines 69-83 ("init") or
\* of lines 12-24 ("reg"). The loaded script has defined window[plugin.name],
\* so pluginToRegister is found.
PluginScriptLoaded(load) ==
    /\ load \in DOMAIN loading
    /\ load.kind \in {"init", "reg"}
    /\ loadedScripts' = loadedScripts \cup {load.src}
    /\ loading' = RemoveLoad(loading, load)
    /\ LET registers ==
               IF load.kind = "init"
               THEN registeredPlugins[load.name].globalRegister /\ windowChart
               ELSE TRUE
       IN  IF registers
           THEN /\ registry' = RegisterWithRenderer(registry, {load.name})
                /\ registerCalls' = CountRegisterCalls(registerCalls, {load.name})
           ELSE UNCHANGED <<registry, registerCalls>>
    /\ UNCHANGED <<chartIdent, chartCoreInitiated, registeredPlugins, windowChart,
                   scriptElements, thrown, canvas, status, config,
                   chartInstance, pending, observing, resized, renderer, heap, mutations, pureVars>>

\* s.onerror (lines 42-44): the promise is rejected, and the .catch of line
\* 25, 83 or 87 logs the error. Nothing else changes.
ScriptLoadFailed(load) ==
    /\ load \in DOMAIN loading
    /\ loading' = RemoveLoad(loading, load)
    /\ UNCHANGED <<chartIdent, chartCoreInitiated, loadedScripts, registeredPlugins,
                   windowChart, registry, scriptElements, registerCalls, thrown,
                   canvas, status, config, chartInstance, pending, observing,
                   resized, renderer, heap, mutations, pureVars>>

-----------------------------------------------------------------------------
(* The chart instance: constructor, Render, mutations, destroy *)

\* typeof value === 'object': true of null and of arrays too.
TypeofObject(value) == value.t \in {"object", "array", "null"}

\* this._config as the constructor builds it (lines 90-104).
ConfigOf(c, initialConfig) ==
    LET field(k) == Get(initialConfig, k)
    IN  [type |-> Nullish(field("type"), Str("line")).v,
         labels |-> IF field("labels").t = "array" THEN field("labels").v ELSE <<>>,
         datasets |-> IF field("datasets").t = "array"
                      THEN field("datasets").ref
                      ELSE OwnArray(c),
         titleText |-> IF field("titleText").t = "string" THEN field("titleText").v ELSE "",
         theme |-> IF field("theme") = Str("light") THEN "light" ELSE "dark",
         palette |-> IF field("palette").t = "array" THEN field("palette").v ELSE <<>>,
         options |-> IF TypeofObject(field("options")) THEN field("options") ELSE Obj(EmptyObj),
         ariaLabel |-> IF field("ariaLabel").t = "string" THEN field("ariaLabel").v ELSE ""]

\* The canvas after lines 57-60.
CanvasAfterConstructor(c, initialConfig) ==
    LET aria == Get(initialConfig, "ariaLabel")
    IN  [canvas EXCEPT ![c] =
            [role |-> "img",
             ariaLabel |-> IF aria.t = "string" /\ aria.v # "" THEN aria.v
                           ELSE canvas[c].ariaLabel]]

\* new _Chart(canvasElement, initialConfig) on a canvas element.
\*   chartIdent = "global": `Chart` is the free identifier the file writes, and
\*   with no window.Chart the call of line 64 throws a ReferenceError after the
\*   canvas attributes were set.
\*   chartIdent = "class": `Chart` denotes the class and its static _loadScript.
Construct(c, initialConfig) ==
    /\ status[c] = "none"
    /\ \A b \in Charts : b < c => status[b] # "none"
    /\ canvas' = CanvasAfterConstructor(c, initialConfig)
    /\ IF ~chartCoreInitiated /\ chartIdent = "global" /\ ~windowChart
       THEN /\ thrown' = thrown \cup {"ReferenceError"}
            /\ UNCHANGED <<scriptElements, loading, status, config, observing>>
       ELSE /\ IF ~chartCoreInitiated
               THEN /\ scriptElements' =
                          [scriptElements EXCEPT ![coreChartJsUrl] =
                              IF AppendsElement(coreChartJsUrl, loadedScripts)
                              THEN @ + 1 ELSE @]
                    /\ loading' = AddLoads(loading, {CoreLoad})
               ELSE UNCHANGED <<scriptElements, loading>>
            /\ config' = [config EXCEPT ![c] = ConfigOf(c, initialConfig)]
            /\ status' = [status EXCEPT ![c] = "live"]
            /\ observing' = [observing EXCEPT ![c] = TRUE]
            /\ UNCHANGED thrown
    /\ UNCHANGED <<chartIdent, chartCoreInitiated, loadedScripts, registeredPlugins,
                   windowChart, registry, registerCalls, chartInstance, pending, resized, renderer, heap, mutations, pureVars>>

\* new _Chart(x) where x is no canvas element (lines 50-52).
ConstructInvalid ==
    /\ thrown' = thrown \cup {"InvalidCanvas"}
    /\ UNCHANGED <<chartIdent, chartCoreInitiated, loadedScripts, registeredPlugins,
                   windowChart, registry, scriptElements, loading, registerCalls,
                   canvas, status, config, chartInstance, pending,
                   observing, resized, renderer, heap, mutations, pureVars>>

\* What a page may hand to the constructor as canvasElement: a canvas
\* element, another element, or null.
Targets == {"canvas", "div", "null"}

\* A test that takes every target for a canvas.
AnyTarget(target) == TRUE

\* canvasElement instanceof HTMLCanvasElement (line 50)
IsCanvasElement(target) == target = "canvas"

\* new _Chart(target, initialConfig) (lines 49-112)
ConstructOn(target, c, initialConfig) ==
    IF IsCanvasElement(target)
    THEN Construct(c, initialConfig)
    ELSE ConstructInvalid

\* The renderer objects of one chart: `current` is the state of the object
\* this._chartInstance refers to ("none" for null, else "live" or, once its
\* destroy() has run, "destroyed"), `released` whether some object of the
\* chart had its destroy() run, `orphans` counts the live objects no
\* reference is left to, `stale` the destroy() and resize() calls made on
\* an object that is not live, and `destroys` the calls of the chart's own
\* destroy().
NoRenderer ==
    [current |-> "none", released |-> FALSE, orphans |-> 0, stale |-> 0, destroys |-> 0]

\* A reference test that passes for null too.
AnyReference(r) == TRUE

\* if (this._chartInstance)
HasInstance(r) == r.current # "none"

\* No call at all.
NoCall(r) == r

\* this._chartInstance.destroy()
CallDestroy(r) ==
    IF r.current = "live"
    THEN [r EXCEPT !.current = "destroyed", !.released = TRUE]
    ELSE [r EXCEPT !.stale = @ + 1]

\* this._chartInstance.resize()
CallResize(r) ==
    IF r.current = "live" THEN r ELSE [r EXCEPT !.stale = @ + 1]

\* this._chartInstance = new ChartJS(this._ctx, chartConfig)
NewInstance(r) ==
    [r EXCEPT !.current = "live",
              !.orphans = IF r.current = "live" THEN @ + 1 ELSE @]

\* The reference is kept as it is.
KeepReference(r) == r

\* this._chartInstance = null
DropReference(r) ==
    [r EXCEPT !.current = "none",
              !.orphans = IF r.current = "live" THEN @ + 1 ELSE @]

\* The rendered instance `new ChartJS(this._ctx, chartConfig)` (line 208),
\* held as the effective type and the configuration and datasets its
\* chartConfig was computed from; RenderedConfig is that chartConfig.
RenderedInstance(cfg, datasets, reg) ==
    [type |-> EffectiveType(cfg.type, reg), cfg |-> cfg, datasets |-> datasets]

RenderedConfig(instance) ==
    [BuildChartConfig(instance.cfg, instance.datasets, NoRegistrations)
        EXCEPT !.type = instance.type]

\* _buildAndRender() on the configuration newConfig and the arrays newHeap
\* (lines 204-212): the instance is replaced and the aria-label refreshed.
\* The initialConfig objects of the lifecycle runs set no options, so the
\* merge of line 185 does not throw here (BuildThrows is false).
BuildAndRender(c, newConfig, newHeap) ==
    /\ chartInstance' =
          [chartInstance EXCEPT ![c] =
              RenderedInstance(newConfig[c], newHeap[newConfig[c].datasets], registry)]
    /\ resized' = [resized EXCEPT ![c] = FALSE]
    /\ renderer' = [renderer EXCEPT ![c] =
                        NewInstance(IF HasInstance(@) THEN CallDestroy(@) ELSE @)]
    /\ canvas' = IF newConfig[c].ariaLabel # ""
                 THEN [canvas EXCEPT ![c].ariaLabel = newConfig[c].ariaLabel]
                 ELSE canvas

\* Render() (lines 114-129): the first waitForChartAndPlugins() runs at once;
\* it builds, or leaves one more timer outstanding.
RenderCall(c, newConfig, newHeap) ==
    IF ReadyToRender
    THEN /\ BuildAndRender(c, newConfig, newHeap)
         /\ UNCHANGED pending
    ELSE /\ pending[c] < MaxPending
         /\ pending' = [pending EXCEPT ![c] = @ + 1]
         /\ UNCHANGED <<chartInstance, resized, renderer, canvas>>

globalsUnchanged ==
    UNCHANGED <<chartIdent, chartCoreInitiated, loadedScripts, registeredPlugins,
                windowChart, registry, scriptElements, loading, registerCalls,
                thrown, pureVars>>

Render(c) ==
    /\ status[c] = "live"
    /\ RenderCall(c, config, heap)
    /\ globalsUnchanged
    /\ UNCHANGED <<status, config, observing, heap, mutations>>

\* A timer of line 125 fires: waitForChartAndPlugins() builds, or sets the
\* next timer (which leaves the state as it is). destroy() clears no timer,
\* so the callback runs whatever the chart's status.
Poll(c) ==
    /\ pending[c] > 0
    /\ IF ReadyToRender
       THEN /\ BuildAndRender(c, config, heap)
            /\ pending' = [pending EXCEPT ![c] = @ - 1]
       ELSE UNCHANGED <<chartInstance, resized, renderer, canvas, pending>>
    /\ globalsUnchanged
    /\ UNCHANGED <<status, config, observing, heap, mutations>>

\* One more call of a mutation operation, within the bound.
CountedCall ==
    /\ mutations < MaxMutations
    /\ mutations' = mutations + 1

\* addDataset(newDs) (lines 215-218)
AddDataset(c, newDs) ==
    /\ status[c] = "live"
    /\ CountedCall
    /\ Len(heap[config[c].datasets]) < MaxDatasets
    /\ heap' = [heap EXCEPT ![config[c].datasets] = Append(@, newDs)]
    /\ RenderCall(c, config, heap')
    /\ globalsUnchanged
    /\ UNCHANGED <<status, config, observing>>

\* datasets.splice(index): everything from the index on is removed.
SpliceToEnd(s, index) == SubSeq(s, 1, index)

\* datasets.splice(index, 1) for a 0-based index.
Splice1(s, index) == SubSeq(s, 1, index) \o SubSeq(s, index + 2, Len(s))

\* removeDataset(index) (lines 220-225)
RemoveDataset(c, index) ==
    /\ status[c] = "live"
    /\ CountedCall
    /\ IF index >= 0 /\ index < Len(heap[config[c].datasets])
       THEN /\ heap' = [heap EXCEPT ![config[c].datasets] = Splice1(@, index)]
            /\ RenderCall(c, config, heap')
       ELSE UNCHANGED <<heap, chartInstance, resized, renderer, canvas, pending>>
    /\ globalsUnchanged
    /\ UNCHANGED <<status, config, observing>>

\* updateData(dsIndex, newData) (lines 227-232)
UpdateData(c, dsIndex, newData) ==
    /\ status[c] = "live"
    /\ CountedCall
    /\ IF dsIndex >= 0 /\ dsIndex < Len(heap[config[c].datasets])
       THEN /\ heap' = [heap EXCEPT ![config[c].datasets][dsIndex + 1] =
                           Assign(@, "data", ArrayOr(newData, Arr(<<>>)))]
            /\ RenderCall(c, config, heap')
       ELSE UNCHANGED <<heap, chartInstance, resized, renderer, canvas, pending>>
    /\ globalsUnchanged
    /\ UNCHANGED <<status, config, observing>>

\* updateLabels(newLabels) (lines 234-239)
UpdateLabels(c, newLabels) ==
    /\ status[c] = "live"
    /\ CountedCall
    /\ IF newLabels.t = "array"
       THEN /\ config' = [config EXCEPT ![c].labels = newLabels.v]
            /\ RenderCall(c, config', heap)
       ELSE UNCHANGED <<config, chartInstance, resized, renderer, canvas, pending>>
    /\ globalsUnchanged
    /\ UNCHANGED <<status, observing, heap>>

\* A toggle that always ends in the light theme.
ToggledThemeLight(theme) == "light"

\* this._config.theme === 'dark' ? 'light' : 'dark' (line 242)
ToggledTheme(theme) == IF theme = "dark" THEN "light" ELSE "dark"

\* toggleTheme() (lines 241-244)
ToggleTheme(c) ==
    /\ status[c] = "live"
    /\ CountedCall
    /\ config' = [config EXCEPT ![c].theme = ToggledTheme(@)]
    /\ RenderCall(c, config', heap)
    /\ globalsUnchanged
    /\ UNCHANGED <<status, observing, heap>>

\* updateType(newType) (lines 246-249)
UpdateType(c, newType) ==
    /\ status[c] = "live"
    /\ CountedCall
    /\ config' = [config EXCEPT ![c].type = newType]
    /\ RenderCall(c, config', heap)
    /\ globalsUnchanged
    /\ UNCHANGED <<status, observing, heap>>

\* updateTitle(newTitleText) (lines 251-254)
UpdateTitle(c, newTitleText) ==
    /\ status[c] = "live"
    /\ CountedCall
    /\ config' = [config EXCEPT ![c].titleText = newTitleText]
    /\ RenderCall(c, config', heap)
    /\ globalsUnchanged
    /\ UNCHANGED <<status, observing, heap>>

\* updateAriaLabel(newAriaLabel) (lines 256-259)
UpdateAriaLabel(c, newAriaLabel) ==
    /\ status[c] = "live"
    /\ CountedCall
    /\ config' = [config EXCEPT ![c].ariaLabel = newAriaLabel]
    /\ canvas' = [canvas EXCEPT ![c].ariaLabel = newAriaLabel]
    /\ globalsUnchanged
    /\ UNCHANGED <<status, chartInstance, pending, observing, resized, renderer, heap>>

\* destroy() (lines 261-267)
Destroy(c) ==
    /\ status[c] \in {"live", "destroyed"}
    /\ renderer[c].destroys < MaxDestroys
    /\ chartInstance' = [chartInstance EXCEPT ![c] = Null]
    /\ resized' = [resized EXCEPT ![c] = FALSE]
    /\ renderer' = [renderer EXCEPT ![c] =
                        [(IF HasInstance(@) THEN DropReference(CallDestroy(@)) ELSE @)
                            EXCEPT !.destroys = @ + 1]]
    /\ observing' = [observing EXCEPT ![c] = FALSE]
    /\ status' = [status EXCEPT ![c] = "destroyed"]
    /\ globalsUnchanged
    /\ UNCHANGED <<canvas, config, pending, heap, mutations>>

\* The ResizeObserver callback (lines 106-110), for a size change of the
\* observed element.
ResizeNotification(c) ==
    /\ observing[c]
    /\ resized' = IF chartInstance[c] # Null
                  THEN [resized EXCEPT ![c] = TRUE]
                  ELSE resized
    /\ renderer' = [renderer EXCEPT ![c] =
                        IF HasInstance(@) THEN CallResize(@) ELSE @]
    /\ globalsUnchanged
    /\ UNCHANGED <<canvas, status, config, chartInstance, pending, observing, heap, mutations>>

-----------------------------------------------------------------------------
(* The lifecycle specification *)

LifeInit ==
    /\ chartIdent \in {"class", "global"}
    /\ chartCoreInitiated = FALSE
    /\ loadedScripts = {}
    /\ registeredPlugins = <<>>
    /\ windowChart = FALSE
    /\ registry = NoRegistrations
    /\ scriptElements = [s \in Srcs |-> 0]
    /\ loading = <<>>
    /\ registerCalls = [n \in PluginNames |-> 0]
    /\ thrown = {}
    /\ canvas = [c \in Charts |-> [role |-> "", ariaLabel |-> ""]]
    /\ status = [c \in Charts |-> "none"]
    /\ config = [c \in Charts |-> Null]
    /\ chartInstance = [c \in Charts |-> Null]
    /\ pending = [c \in Charts |-> 0]
    /\ observing = [c \in Charts |-> FALSE]
    /\ resized = [c \in Charts |-> FALSE]
    /\ renderer = [c \in Charts |-> NoRenderer]
    /\ mutations = 0
    /\ heap = [a \in ArrayIds |->
                  IF a = CallerArray
                  THEN <<[label |-> Str("A"), data |-> Arr(<<Num(1), Num(2)>>)]>>
                  ELSE <<>>]

RenderIdle ==
    /\ nType = "line"
    /\ nTheme = "dark"
    /\ nDs = EmptyObj
    /\ nReg = NoRegistrations
    /\ nOut = Undef
    /\ nPalette = <<>>
    /\ nLabels = <<>>
    /\ nCount = 0

MergeIdle ==
    /\ mergeTarget = EmptyObj
    /\ mergeSource = EmptyObj
    /\ mergeOut = Undef

PureIdle == RenderIdle /\ MergeIdle

Init == LifeInit /\ PureIdle

ScriptEvent ==
    \/ CoreScriptLoaded
    \/ \E load \in DOMAIN loading : PluginScriptLoaded(load)
    \/ \E load \in DOMAIN loading : ScriptLoadFailed(load)

Mutation(c) ==
    \/ \E newDs \in LifeDatasets : AddDataset(c, newDs)
    \/ \E index \in -1..MaxDatasets : RemoveDataset(c, index)
    \/ \E dsIndex \in -1..MaxDatasets, newData \in {Arr(<<Num(5)>>), Str("none")} :
          UpdateData(c, dsIndex, newData)
    \/ \E newLabels \in {Arr(<<Str("x")>>), Undef} : UpdateLabels(c, newLabels)
    \/ ToggleTheme(c)
    \/ \E newType \in LifeTypes : UpdateType(c, newType)
    \/ \E newTitleText \in {"", "Title"} : UpdateTitle(c, newTitleText)
    \/ \E newAriaLabel \in {"chart", "updated"} : UpdateAriaLabel(c, newAriaLabel)


\* The page constructs charts, registers plugins, renders and destroys; the
\* scripts load or fail, the timers fire, the observed elements change size.
LifeNext ==
    \/ \E plugin \in PluginInputs : RegisterPlugin(plugin)
    \/ ScriptEvent
    \/ \E c \in Charts, initialConfig \in InitialConfigs : Construct(c, initialConfig)
    \/ ConstructInvalid
    \/ \E c \in Charts : Render(c)
    \/ \E c \in Charts : Poll(c)
    \/ \E c \in Charts : Destroy(c)
    \/ \E c \in Charts : ResizeNotification(c)

Next == LifeNext

Spec == Init /\ [][Next]_vars

\* The timers of line 125 fire and every script load ends, with onload or
\* with onerror.
Fairness ==
    /\ \A c \in Charts : WF_vars(Poll(c))
    /\ WF_vars(ScriptEvent)

FairSpec == Spec /\ Fairness

\* The page constructs charts and calls their mutation operations while the
\* core script loads; it registers no plugin.
MutationNext ==
    \/ CoreScriptLoaded
    \/ \E c \in Charts, initialConfig \in InitialConfigs : Construct(c, initialConfig)
    \/ \E c \in Charts : Render(c)
    \/ \E c \in Charts : Poll(c)
    \/ \E c \in Charts : Mutation(c)
    \/ \E c \in Charts : Destroy(c)

MutationSpec == Init /\ [][MutationNext]_vars

\* The page constructs charts and calls their mutation operations while the
\* core script loads and the timers fire.
EditNext ==
    \/ CoreScriptLoaded
    \/ \E c \in 1..MaxEditCharts, initialConfig \in InitialConfigs :
          Construct(c, initialConfig)
    \/ \E c \in 1..MaxEditCharts : Poll(c)
    \/ \E c \in 1..MaxEditCharts : Mutation(c)

EditSpec == Init /\ [][EditNext]_vars

\* The page constructs charts, renders, retypes and destroys them while the
\* core script loads or fails, the timers fire and the observed elements
\* change size.
ObjectNext ==
    \/ CoreScriptLoaded
    \/ \E load \in DOMAIN loading : ScriptLoadFailed(load)
    \/ \E c \in 1..MaxReadyCharts, initialConfig \in InitialConfigs :
          Construct(c, initialConfig)
    \/ \E c \in 1..MaxReadyCharts : Render(c)
    \/ \E c \in 1..MaxReadyCharts : Poll(c)
    \/ \E c \in 1..MaxReadyCharts, newType \in LifeTypes : UpdateType(c, newType)
    \/ \E c \in 1..MaxReadyCharts : Destroy(c)
    \/ \E c \in 1..MaxReadyCharts : ResizeNotification(c)

ObjectSpec == Init /\ [][ObjectNext]_vars

\* The page registers plugins, constructs charts and renders them while the
\* scripts load or fail; it destroys nothing.
ReadyNext ==
    \/ \E plugin \in PluginInputs : RegisterPlugin(plugin)
    \/ ScriptEvent
    \/ \E c \in 1..MaxReadyCharts, initialConfig \in InitialConfigs :
          Construct(c, initialConfig)
    \/ \E c \in 1..MaxReadyCharts : Render(c)
    \/ \E c \in 1..MaxReadyCharts : Poll(c)

ReadySpec == Init /\ [][ReadyNext]_vars

\* The page registers plugins, constructs charts on canvas elements and on
\* other targets and destroys them while the scripts load or fail.
CanvasNext ==
    \/ \E plugin \in PluginInputs : RegisterPlugin(plugin)
    \/ ScriptEvent
    \/ \E target \in Targets, c \in 1..MaxReadyCharts, initialConfig \in InitialConfigs :
          ConstructOn(target, c, initialConfig)
    \/ \E c \in 1..MaxReadyCharts : Destroy(c)

CanvasSpec == Init /\ [][CanvasNext]_vars

-----------------------------------------------------------------------------
(* Destruction, script loading and registration, the readiness of Render *)

\* C1: after destroy() no later step for the chart (a pending Render poll, a
\* size-change notification) creates or touches a rendered instance: the
\* chart's _chartInstance stays null in every state after destroy.
C1_DestroyedStaysNull ==
    \A c \in Charts : status[c] = "destroyed" => chartInstance[c] = Null

\* C2: over every interleaving of constructions, registerPlugin calls and load
\* completions, at most one script element is appended per source identifier.
C2_OneElementPerSource ==
    \A s \in Srcs : scriptElements[s] <= 1

\* C3: with several charts constructed before the core has loaded, each
\* registered extension is passed to window.Chart.register at most once.
C3_RegisteredAtMostOnce ==
    \A n \in PluginNames : registerCalls[n] <= 1

\* A registered extension whose script was requested and is neither loaded
\* nor loading any more: its load has failed.
LoadFailed(n) ==
    /\ n \in DOMAIN registeredPlugins
    /\ scriptElements[registeredPlugins[n].src] > 0
    /\ registeredPlugins[n].src \notin loadedScripts
    /\ \A load \in DOMAIN loading : load.src # registeredPlugins[n].src

\* C4: when the script of a registered extension has failed to load, nothing
\* was thrown into caller code by the failure, the extension stays not loaded,
\* and a Render() waiting on a live chart with the core loaded still leads to
\* a rendered instance (or to the chart's destruction by its owner).
C4_FailedLoadStillRenders ==
    \A c \in Charts :
        ((\E n \in PluginNames : LoadFailed(n))
            /\ status[c] = "live" /\ pending[c] > 0
            /\ windowChart /\ chartCoreInitiated)
        ~> (chartInstance[c] # Null \/ status[c] = "destroyed")

\* The readiness C5 names, read from the module's state.
C5_Ready ==
    /\ windowChart
    /\ chartCoreInitiated
    /\ \A n \in DOMAIN registeredPlugins :
          /\ registeredPlugins[n].src \in loadedScripts
          /\ registeredPlugins[n].globalRegister =>
                (n \in registry.controllers \/ n \in registry.plugins)

\* C5: a step creates a rendered instance only in a state where the renderer
\* global exists, the core is marked initiated and every plugin of the registry
\* is loaded and (when globalRegister is set) registered; a step that leaves
\* one more poll outstanding is taken only in a state that is not so, and
\* creates no instance.
C5_BuildsOnlyWhenReady ==
    [][\A c \in Charts :
          /\ (chartInstance'[c] # chartInstance[c] /\ chartInstance'[c] # Null)
                => C5_Ready
          /\ pending'[c] > pending[c]
                => (~C5_Ready /\ chartInstance'[c] = chartInstance[c])]_vars

\* A chart rendered with a plugin in the registry while a poll left by an
\* earlier Render() is still outstanding.
C5_Witness ==
    \E c, d \in Charts :
        /\ registeredPlugins # <<>>
        /\ chartInstance[c] # Null
        /\ pending[d] > 0

-----------------------------------------------------------------------------
(* The mutation operations *)

\* The chartConfig _buildAndRender computes from chart c's current ChartSpec.
CurrentConfig(c) ==
    RenderedConfig(RenderedInstance(config[c], heap[config[c].datasets], registry))

\* C6: after any sequence of mutation operations on a chart that is not
\* destroyed, once the core and the registered extensions are ready and no
\* Render poll is outstanding, the rendered instance is the one built from the
\* normalization of the chart's current ChartSpec; updateAriaLabel leaves the
\* aria-label attribute it was given and schedules no render.
C6_RenderedFromCurrentSpec ==
    \A c \in Charts :
        (status[c] = "live" /\ chartInstance[c] # Null
            /\ pending[c] = 0 /\ ReadyToRender)
        => /\ RenderedConfig(chartInstance[c]) = CurrentConfig(c)
           /\ config[c].ariaLabel # "" => canvas[c].ariaLabel = config[c].ariaLabel

\* The same, for the charts whose datasets array no other chart holds.
RenderedFromCurrentSpecUnlessShared ==
    \A c \in Charts :
        (status[c] = "live" /\ chartInstance[c] # Null
            /\ pending[c] = 0 /\ ReadyToRender
            /\ \A b \in Charts \ {c} :
                  status[b] = "none" \/ config[b].datasets # config[c].datasets)
        => /\ RenderedConfig(chartInstance[c]) = CurrentConfig(c)
           /\ config[c].ariaLabel # "" => canvas[c].ariaLabel = config[c].ariaLabel

-----------------------------------------------------------------------------
(* One render, as a function of its inputs *)

\* The lifecycle variables of a page that has constructed nothing.
LifeIdle == LifeInit /\ chartIdent = "class"

\* this._config of a chart of type nType and theme nTheme that sets nothing
\* else.
PureConfig ==
    [type |-> nType, labels |-> nLabels, datasets |-> CallerArray, titleText |-> "",
     theme |-> nTheme, palette |-> nPalette, options |-> Obj(EmptyObj), ariaLabel |-> ""]

\* cfg.datasets of that chart: nDs, and nCount datasets that set nothing.
PureDatasets == <<nDs>> \o [i \in 1..nCount |-> EmptyObj]

\* The extensions a page registers with the renderer, each as a controller or
\* as a plugin.
RegisterExtension(tag, kind) ==
    /\ Cardinality(nReg.controllers) + Cardinality(nReg.plugins) < MaxExtensions
    /\ tag \notin nReg[kind]
    /\ nReg' = [nReg EXCEPT ![kind] = @ \cup {tag}]
    /\ UNCHANGED <<nType, nTheme, nDs, nOut, nPalette, nLabels, nCount, mergeVars, lifeVars>>

\* _buildAndRender() on a chart without datasets: the effective type, the
\* registrations it was resolved under and the type of the render before.
ResolveType ==
    /\ nOut' = [t |-> "resolved",
                type |-> BuildChartConfig(PureConfig, <<>>, nReg).type,
                reg |-> nReg,
                before |-> IF nOut.t = "resolved" THEN nOut.type ELSE ""]
    /\ UNCHANGED <<nType, nTheme, nDs, nReg, nPalette, nLabels, nCount, mergeVars, lifeVars>>

TypeInit ==
    /\ LifeIdle
    /\ nType \in ChartTypes
    /\ nTheme = "dark"
    /\ nDs = EmptyObj
    /\ nReg = NoRegistrations
    /\ nOut = Undef
    /\ nPalette = <<>>
    /\ nLabels = <<>>
    /\ nCount = 0
    /\ MergeIdle

TypeNext ==
    \/ \E tag \in ExtensionTags, kind \in {"controllers", "plugins"} :
          RegisterExtension(tag, kind)
    \/ ResolveType

TypeSpec == TypeInit /\ [][TypeNext]_vars

\* The fields a caller sets on a dataset, with the values tried for each.
FieldValues ==
    [fill |-> {Bool(TRUE), Bool(FALSE)},
     backgroundColor |-> {Str("red"), Arr(<<Str("red"), Str("blue")>>)},
     data |-> {Arr(<<Num(1), Num(3)>>), Arr(<<>>)},
     pointRadius |-> {Num(9)},
     borderWidth |-> {Num(3)},
     additionalProps |->
        {Obj([pointRadius |-> Num(7)]), Obj([fill |-> Bool(TRUE)]),
         Obj([tension |-> Num(0)]), Obj([backgroundColor |-> Str("green")]),
         Obj([hoverOffset |-> Num(8)]), Obj([radius |-> Num(6)]),
         Obj([borderWidth |-> Num(5)]), Obj([order |-> Num(1)])}]

\* The caller sets one field of the dataset it will hand to the chart.
SetField(field, value) ==
    /\ field \in DOMAIN nDs \/ Cardinality(DOMAIN nDs) < MaxFields
    /\ nDs' = Assign(nDs, field, value)
    /\ nOut' = Undef
    /\ UNCHANGED <<nType, nTheme, nReg, nPalette, nLabels, nCount, mergeVars, lifeVars>>

\* _buildAndRender() on a chart whose only dataset is nDs: the effective type
\* and the normalized datasets of its chartConfig.
NormalizeOne ==
    /\ nOut.t = "undefined"
    /\ LET chartConfig == BuildChartConfig(PureConfig, PureDatasets, nReg)
       IN  nOut' = [t |-> "rendered",
                    type |-> chartConfig.type,
                    datasets |-> chartConfig.data.datasets]
    /\ UNCHANGED <<nType, nTheme, nDs, nReg, nPalette, nLabels, nCount, mergeVars, lifeVars>>

NormInit ==
    /\ LifeIdle
    /\ nType \in ChartTypes
    /\ nTheme \in {"dark", "light"}
    /\ nDs = EmptyObj
    /\ nReg = NoRegistrations
    /\ nOut = Undef
    /\ nPalette = <<>>
    /\ nLabels = <<>>
    /\ nCount = 0
    /\ MergeIdle

NormNext ==
    \/ \E field \in DOMAIN FieldValues :
          \E value \in FieldValues[field] : SetField(field, value)
    \/ NormalizeOne

NormSpec == NormInit /\ [][NormNext]_vars

\* What a caller may give as initialConfig.options: nothing, null, an empty
\* tree, override trees, and a string.
OptionInputs ==
    {Undef, Null, Obj(EmptyObj), Str("none"),
     Obj([plugins |-> Obj([datalabels |-> Obj([font |-> Null])])]),
     Obj([scales |-> Obj([x |-> Obj([title |-> Obj([display |-> Bool(TRUE)])])])])}

\* Dataset fields of the wrong type, and a passthrough bag that is no object.
MalformedFields ==
    [label |-> {Num(5), Null},
     data |-> {Str("none"), Obj(EmptyObj)},
     borderWidth |-> {Str("3")},
     pointRadius |-> {Bool(TRUE)},
     fill |-> {Str("yes")},
     bins |-> {Str("4")},
     additionalProps |-> {Num(3), Null}]

\* this._config of the chart `new _Chart(canvas, {theme, options, datasets})`
\* after updateType(nType); the caller's options are mergeSource.
PipelineConfig ==
    [ConfigOf(1, [theme |-> Str(nTheme), options |-> mergeSource,
                  datasets |-> [t |-> "array", ref |-> CallerArray]])
        EXCEPT !.type = nType]

\* updateType(newType) (lines 246-249), as far as the next build sees it.
SetType(newType) ==
    /\ nType # newType
    /\ nType' = newType
    /\ nOut' = Undef
    /\ UNCHANGED <<nTheme, nDs, nReg, nPalette, nLabels, nCount, mergeVars, lifeVars>>

\* _buildAndRender() up to its chartConfig (lines 131-202) on the chart whose
\* only dataset is nDs: the chartConfig, or the TypeError thrown.
RunPipeline ==
    /\ nOut.t = "undefined"
    /\ nOut' = IF BuildThrows(PipelineConfig)
               THEN [t |-> "TypeError"]
               ELSE [t |-> "built",
                     chartConfig |-> BuildChartConfig(PipelineConfig, PureDatasets, nReg)]
    /\ UNCHANGED <<nType, nTheme, nDs, nReg, nPalette, nLabels, nCount, mergeVars, lifeVars>>

PipelineInit ==
    /\ LifeIdle
    /\ nType = "line"
    /\ nTheme \in {"dark", "light"}
    /\ nDs = EmptyObj
    /\ nReg = NoRegistrations
    /\ nOut = Undef
    /\ nPalette = <<>>
    /\ nLabels = <<>>
    /\ nCount = 0
    /\ mergeTarget = EmptyObj
    /\ mergeSource \in OptionInputs
    /\ mergeOut = Undef

PipelineNext ==
    \/ \E field \in DOMAIN MalformedFields :
          \E value \in MalformedFields[field] : SetField(field, value)
    \/ \E newType \in ChartTypes : SetType(newType)
    \/ RunPipeline

PipelineSpec == PipelineInit /\ [][PipelineNext]_vars

-----------------------------------------------------------------------------
(* Type resolution and dataset normalization *)

\* The effective renderer type C7 states for a requested type under the
\* registrations reg.
C7_Expected(type, reg) ==
    LET lower == ToLowerCase(type)
        tag == CASE lower = "heatmap" -> "matrix"
                 [] lower = "ohlc" -> "candlestick"
                 [] OTHER -> lower
    IN  CASE lower = "area" -> "line"
          [] lower = "gauge" -> "doughnut"
          [] lower = "histogram" -> "bar"
          [] lower \in {"heatmap", "treemap", "candlestick", "ohlc",
                        "funnel", "boxplot"} ->
                IF tag \in reg.controllers \cup reg.plugins THEN tag ELSE "bar"
          [] OTHER -> type

\* C7: every render resolves the effective type to 'line' for area, 'doughnut'
\* for gauge, 'bar' for histogram, the requested type for the directly
\* supported types, and for heatmap/treemap/candlestick/ohlc/funnel/boxplot to
\* the extension tag when that controller or plugin is registered with the
\* renderer at the moment of the render, and to 'bar' otherwise.
C7_EffectiveType ==
    nOut.t = "resolved" => nOut.type = C7_Expected(nType, nOut.reg)

\* A heatmap rendered as 'bar', and after the registration of the matrix
\* extension rendered as 'matrix'.
C7_Witness ==
    /\ nOut.t = "resolved"
    /\ nType = "heatmap"
    /\ nOut.before = "bar"
    /\ nOut.type = "matrix"

\* C8: for chart type 'area' every resolved dataset has fill = true and the
\* effective type is 'line', also when the caller's dataset sets fill = false.
C8_AreaAlwaysFilled ==
    (nOut.t = "rendered" /\ ToLowerCase(nType) = "area")
    => /\ nOut.type = "line"
       /\ \A i \in DOMAIN nOut.datasets :
             Get(nOut.datasets[i], "fill") = Bool(TRUE)

\* C9: for every chart type and dataset, each key of the passthrough bag
\* (additionalProps) is in the resolved dataset with the passthrough value,
\* also when the key is a computed default or a type-specific field.
C9_PassthroughWins ==
    nOut.t = "rendered"
    => \A key \in DOMAIN AdditionalProps(nDs) :
          Get(nOut.datasets[1], key) = AdditionalProps(nDs)[key]

\* C10: for pie, doughnut and polarArea the resolved backgroundColor is an
\* array: the caller's array is kept, the caller's scalar color c becomes [c],
\* and only an unset color becomes [the assigned palette color].
C10_BackgroundColorArray ==
    (nOut.t = "rendered" /\ ToLowerCase(nType) \in {"pie", "doughnut", "polararea"})
    => LET given == Get(nDs, "backgroundColor")
           resolved == Get(nOut.datasets[1], "backgroundColor")
       IN  /\ resolved.t = "array"
           /\ given.t = "array" => resolved = given
           /\ given.t = "string" => resolved = Arr(<<given>>)
           /\ given.t = "undefined" =>
                 resolved = Arr(<<Str(GeneratePalette(1, nTheme)[1])>>)

-----------------------------------------------------------------------------
(* Default colors *)

PaletteColors == {"red", "green", "blue"}

\* The caller adds a color to the explicit palette of the chart.
AddPaletteColor(color) ==
    /\ Len(nPalette) < MaxPalette
    /\ nPalette' = Append(nPalette, color)
    /\ nOut' = Undef
    /\ UNCHANGED <<nType, nTheme, nDs, nReg, nLabels, nCount, mergeVars, lifeVars>>

\* The caller adds a dataset that sets no color.
AddPlainDataset ==
    /\ nCount < MaxCount
    /\ nCount' = nCount + 1
    /\ nOut' = Undef
    /\ UNCHANGED <<nType, nTheme, nDs, nReg, nPalette, nLabels, mergeVars, lifeVars>>

\* _buildAndRender(): the default color each dataset was normalized with (its
\* backgroundColor, as no dataset sets one), and _generatePalette for the
\* chart's dataset count and theme.
AssignColors ==
    /\ nOut.t = "undefined"
    /\ LET chartConfig == BuildChartConfig(PureConfig, PureDatasets, nReg)
       IN  nOut' = [t |-> "colored",
                    colors |-> [i \in DOMAIN chartConfig.data.datasets |->
                                   chartConfig.data.datasets[i].backgroundColor],
                    generated |-> GeneratePalette(Len(PureDatasets), nTheme)]
    /\ UNCHANGED <<nType, nTheme, nDs, nReg, nPalette, nLabels, nCount, mergeVars, lifeVars>>

PaletteInit ==
    /\ LifeIdle
    /\ nType = "bar"
    /\ nTheme \in {"dark", "light"}
    /\ nDs = EmptyObj
    /\ nReg = NoRegistrations
    /\ nOut = Undef
    /\ nPalette = <<>>
    /\ nLabels = <<>>
    /\ nCount = 0
    /\ MergeIdle

PaletteNext ==
    \/ \E color \in PaletteColors : AddPaletteColor(color)
    \/ AddPlainDataset
    \/ AssignColors

PaletteSpec == PaletteInit /\ [][PaletteNext]_vars

\* C11: at every render dataset i gets the default color P[i mod |P|], where P
\* is the caller's explicit palette when that is a non-empty array and the
\* built-in 10-color table of the current theme otherwise; and
\* _generatePalette(n, theme) has exactly n colors, color i being
\* table[i mod 10].
C11_DefaultColors ==
    nOut.t = "colored"
    => LET table == IF nTheme = "light" THEN lightPalette ELSE darkPalette
           P == IF nPalette # <<>> THEN nPalette ELSE table
           n == nCount + 1
       IN  /\ Len(table) = 10
           /\ Len(nOut.colors) = n
           /\ \A i \in 0..(n - 1) :
                 nOut.colors[i + 1] = Str(P[(i % Len(P)) + 1])
           /\ Len(nOut.generated) = n
           /\ \A i \in 0..(n - 1) :
                 nOut.generated[i + 1] = table[(i % 10) + 1]

\* More datasets than the built-in table has colors, and no explicit palette.
C11_Witness ==
    /\ nOut.t = "colored"
    /\ nPalette = <<>>
    /\ nCount + 1 > 10

-----------------------------------------------------------------------------
(* Deep merge *)

\* The option trees of the merge runs: key "a" holds a leaf or a nested tree,
\* key "b" a leaf; either may be absent. The leaves of the default tree and of
\* the override tree differ, so that the result shows where a value came from.
RECURSIVE MergeTrees(_, _)
MergeTrees(leaves, depth) ==
    IF depth = 0 THEN {EmptyObj}
    ELSE LET nested == {Obj(tree) : tree \in MergeTrees(leaves, depth - 1)}
             absent == [t |-> "absent"]
             build(a, b) ==
                 [key \in {k \in {"a", "b"} :
                              (k = "a" /\ a # absent) \/ (k = "b" /\ b # absent)} |->
                     IF key = "a" THEN a ELSE b]
         IN  {build(a, b) : a \in leaves \cup nested \cup {absent},
                            b \in leaves \cup {absent}}

DefaultLeaves == {Num(1), Arr(<<Num(1), Num(2)>>), Null}
OverrideLeaves == {Num(2), Arr(<<Num(9)>>), Null}

\* One call _deepMerge(mergeTarget, mergeSource): the value returned, or the
\* TypeError thrown. The call writes to `out` only (lines 389-403).
Merge ==
    /\ mergeOut.t = "undefined"
    /\ mergeOut' = IF DeepMergeThrows(Obj(mergeTarget), mergeSource)
                   THEN [t |-> "TypeError"]
                   ELSE Obj(DeepMerge(mergeTarget, mergeSource))
    /\ UNCHANGED <<mergeTarget, mergeSource>>
    /\ UNCHANGED <<nType, nTheme, nDs, nReg, nOut, nPalette, nLabels, nCount, lifeVars>>

MergeInit ==
    /\ LifeIdle
    /\ RenderIdle
    /\ mergeTarget \in MergeTrees(DefaultLeaves, MaxDepth)
    /\ mergeSource \in MergeTrees(OverrideLeaves, MaxDepth)
    /\ mergeOut = Undef

MergeNext == Merge

MergeSpec == MergeInit /\ [][MergeNext]_vars

\* A non-array mapping.
C12_IsMapping(value) == value.t = "object"

\* The merge C12 states, on the key maps of the default and the override.
RECURSIVE C12_Merged(_, _)
C12_Merged(default, override) ==
    [key \in DOMAIN default \cup DOMAIN override |->
        IF key \notin DOMAIN override THEN default[key]
        ELSE IF /\ key \in DOMAIN default
                /\ C12_IsMapping(default[key])
                /\ C12_IsMapping(override[key])
             THEN Obj(C12_Merged(default[key].v, override[key].v))
             ELSE override[key]]

\* C12: _deepMerge(default, override) merges recursively exactly at the keys
\* of both trees whose two values are non-array mappings; at every other key
\* of the override the override's value replaces the default's wholesale
\* (arrays too), and the keys of the default alone are kept.
C12_DeepMerge ==
    mergeOut.t # "undefined"
    => mergeOut = Obj(C12_Merged(mergeTarget, mergeSource))

\* C13: _deepMerge(d, {}) equals d for every default tree d, and a merge
\* modifies neither of its arguments.
C13_EmptyOverride ==
    [][mergeOut' # mergeOut
         => /\ mergeSource = EmptyObj => mergeOut' = Obj(mergeTarget)
            /\ mergeTarget' = mergeTarget
            /\ mergeSource' = mergeSource]_vars

\* A default tree with a nested mapping and a null, merged with {}.
C13_Witness ==
    /\ mergeOut.t = "object"
    /\ mergeSource = EmptyObj
    /\ "a" \in DOMAIN mergeTarget /\ mergeTarget["a"].t = "object"
    /\ "b" \in DOMAIN mergeTarget /\ mergeTarget["b"] = Null

-----------------------------------------------------------------------------
(* Histogram binning *)

\* The entries a caller puts in ds.data: finite numbers, NaN, Infinity and a
\* string.
HistValues == {Num(1), Num(6), Num(10), NaN, Infinity, Str("7")}

\* The values of ds.bins tried: positive integers, positive fractions, zero and
\* a string.
HistBins == {Num(2), Num(5), Frac(1, 2), Frac(5, 2), Num(0), Str("4")}

\* The arrays tried for ds.binEdges.
HistEdges ==
    {<<Num(0), Num(5), Num(10)>>, <<Num(10), Num(0), Num(5)>>,
     <<Num(2), Num(4)>>, <<Num(6), Num(6)>>, <<Num(5)>>}

\* The data of the two documented examples: 1, 2, .., 10 and 1, 6, 10.
ExampleData == {[i \in 1..10 |-> Num(i)], <<Num(1), Num(6), Num(10)>>}

\* ds.data as a sequence: empty when the caller has set no data.
DataOf(ds) == ArrayOr(Get(ds, "data"), Arr(<<>>)).v

\* The caller appends one entry to ds.data.
AddValue(value) ==
    /\ Len(DataOf(nDs)) < MaxValues
    /\ nDs' = Assign(nDs, "data", Arr(Append(DataOf(nDs), value)))
    /\ nOut' = Undef
    /\ UNCHANGED <<nType, nTheme, nReg, nPalette, nLabels, nCount, mergeVars, lifeVars>>

\* The caller sets ds.bins.
SetBins(bins) ==
    /\ nDs' = Assign(nDs, "bins", bins)
    /\ nOut' = Undef
    /\ UNCHANGED <<nType, nTheme, nReg, nPalette, nLabels, nCount, mergeVars, lifeVars>>

\* The caller sets ds.binEdges.
SetBinEdges(binEdges) ==
    /\ nDs' = Assign(nDs, "binEdges", Arr(binEdges))
    /\ nOut' = Undef
    /\ UNCHANGED <<nType, nTheme, nReg, nPalette, nLabels, nCount, mergeVars, lifeVars>>

\* _buildAndRender() on a chart whose first dataset is nDs: the `edges` of
\* _buildHistogramDataset (none when no value passes the filter of line 521),
\* the data of the first normalized dataset and the labels of chartConfig.
BinValues ==
    /\ nOut.t = "undefined"
    /\ LET chartConfig == BuildChartConfig(PureConfig, PureDatasets, nReg)
           values == RawValues(nDs)
       IN  nOut' = [t |-> "binned",
                    edges |-> IF ToLowerCase(nType) = "histogram" /\ values # <<>>
                              THEN HistogramEdges(nDs, values)
                              ELSE <<>>,
                    data |-> chartConfig.data.datasets[1].data.v,
                    labels |-> chartConfig.data.labels]
    /\ UNCHANGED <<nType, nTheme, nDs, nReg, nPalette, nLabels, nCount, mergeVars, lifeVars>>

HistInit ==
    /\ LifeIdle
    /\ nType = "histogram"
    /\ nTheme = "dark"
    /\ nDs \in {EmptyObj} \cup {[data |-> Arr(data)] : data \in ExampleData}
    /\ nReg = NoRegistrations
    /\ nOut = Undef
    /\ nPalette = <<>>
    /\ nLabels = <<>>
    /\ nCount = 0
    /\ MergeIdle

HistNext ==
    \/ \E value \in HistValues : AddValue(value)
    \/ \E bins \in HistBins : SetBins(bins)
    \/ \E binEdges \in HistEdges : SetBinEdges(binEdges)
    \/ BinValues

HistSpec == HistInit /\ [][HistNext]_vars

\* The positions of ds.data that hold a finite number.
C14_FiniteEntries == {j \in DOMAIN DataOf(nDs) :
                     DataOf(nDs)[j].t = "number" /\ IsFinite(DataOf(nDs)[j])}

\* The count of bin i in the binned data.
C14_CountOf(i) == nOut.data[i].v.y.n

RECURSIVE C14_SumOfCounts(_)
C14_SumOfCounts(i) == IF i = 0 THEN 0 ELSE C14_CountOf(i) + C14_SumOfCounts(i - 1)

\* The bin C14 assigns a value under the edges used: the first bin i with
\* edges[i] <= value < edges[i+1], the last bin when the value equals the
\* final edge.
C14_Bin(value, edges) ==
    LET n == Len(edges) - 1
        halfOpen == {i \in 1..n : NumLeq(edges[i], value) /\ NumLess(value, edges[i + 1])}
    IN  IF halfOpen # {}
        THEN CHOOSE i \in halfOpen : \A j \in halfOpen : i <= j
        ELSE n

\* C14: binning counts every finite numeric entry of the data in exactly one
\* bin (the first bin i with edges[i] <= value < edges[i+1], or the last bin
\* when the value equals the final edge), so the bin counts add up to the
\* number of finite numeric entries, with explicit and with computed edges;
\* entries that are not finite numbers are counted in no bin.
C14_EveryValueInOneBin ==
    nOut.t = "binned"
    => /\ C14_SumOfCounts(Len(nOut.data)) = Cardinality(C14_FiniteEntries)
       /\ \A i \in DOMAIN nOut.data :
             C14_CountOf(i) = Cardinality({j \in C14_FiniteEntries :
                                          C14_Bin(DataOf(nDs)[j], nOut.edges) = i})


\* The entries of ds.data that are binned: the numbers other than NaN.
C15_Observed == {v \in {DataOf(nDs)[j] : j \in DOMAIN DataOf(nDs)} :
                    v.t = "number" /\ ~IsNaN(v)}

\* s is a rearrangement of r.
C15_Rearranged(s, r) ==
    /\ Len(s) = Len(r)
    /\ \A e \in {r[i] : i \in DOMAIN r} :
          Cardinality({i \in DOMAIN s : s[i] = e})
              = Cardinality({i \in DOMAIN r : r[i] = e})

\* The edges C15 states for the caller's edges and the observed values.
C15_EdgesAsStated(edges, caller, observed) ==
    \E pre \in {0, 1}, post \in {0, 1} :
        LET core == SubSeq(edges, 1 + pre, Len(edges) - post)
        IN  /\ Len(edges) = Len(caller) + pre + post
            /\ C15_Rearranged(core, caller)
            /\ \A i \in 1..(Len(core) - 1) : NumLeq(core[i], core[i + 1])
            /\ pre = 1 <=> \E v \in observed : NumLess(v, core[1])
            /\ pre = 1 => /\ edges[1] \in observed
                          /\ \A v \in observed : NumLeq(edges[1], v)
            /\ post = 1 <=> \E v \in observed : NumLess(core[Len(core)], v)
            /\ post = 1 => /\ edges[Len(edges)] \in observed
                           /\ \A v \in observed : NumLeq(v, edges[Len(edges)])

C16_BinCount ==
    LET bins == Get(nDs, "bins")
    IN  IF bins.t = "number" /\ NumLess(Num(0), bins) THEN bins ELSE Num(10)

\* The finite numbers of ds.data.
C16_Values == {DataOf(nDs)[j] : j \in C14_FiniteEntries}

\* C16: without explicit edges, a histogram of at least one value has
\* exactly k bins (k = ds.bins when it is a positive number, else 10) of the
\* equal width (max - min) / k, the first edge is the minimum and the last
\* edge is the maximum, so the entries equal to the maximum are counted in
\* the final bin; when min = max all values are counted in the final bin.
C16_ComputedEdges ==
    (/\ nOut.t = "binned"
     /\ ~(Get(nDs, "binEdges").t = "array" /\ Len(Get(nDs, "binEdges").v) >= 2)
     /\ C16_Values # {})
    => LET k == C16_BinCount
           edges == nOut.edges
           bins == Len(nOut.data)
           min == CHOOSE v \in C16_Values : \A w \in C16_Values : NumLeq(v, w)
           max == CHOOSE v \in C16_Values : \A w \in C16_Values : NumLeq(w, v)
           width == NumTimes(NumMinus(max, min), Frac(k.d, k.n))
       IN  /\ NumEq(Num(bins), k)
           /\ Len(edges) = bins + 1
           /\ \A i \in 1..bins : NumEq(NumMinus(edges[i + 1], edges[i]), width)
           /\ NumEq(edges[1], min)
           /\ NumEq(edges[Len(edges)], max)
           /\ C14_CountOf(bins)
                 >= Cardinality({j \in C14_FiniteEntries : NumEq(DataOf(nDs)[j], max)})
           /\ NumEq(min, max) => C14_CountOf(bins) = Cardinality(C14_FiniteEntries)


-----------------------------------------------------------------------------
(* Labels of the rendered chart *)

LabelTypes == {"histogram", "bar", "line", "pie", "Area"}

\* The labels a caller supplies.
CallerLabels == {<<>>, <<"Q1", "Q2">>}

\* _buildAndRender() on a chart with the datasets PureDatasets: the labels and
\* the datasets of its chartConfig.
RenderLabels ==
    /\ nOut.t = "undefined"
    /\ LET chartConfig == BuildChartConfig(PureConfig, PureDatasets, nReg)
       IN  nOut' = [t |-> "labelled",
                    labels |-> chartConfig.data.labels,
                    datasets |-> chartConfig.data.datasets]
    /\ UNCHANGED <<nType, nTheme, nDs, nReg, nPalette, nLabels, nCount, mergeVars, lifeVars>>

\* _buildAndRender() on a chart of the same type and labels without datasets.
RenderNoDatasets ==
    /\ nOut.t = "undefined"
    /\ LET chartConfig == BuildChartConfig(PureConfig, <<>>, nReg)
       IN  nOut' = [t |-> "labelled",
                    labels |-> chartConfig.data.labels,
                    datasets |-> chartConfig.data.datasets]
    /\ UNCHANGED <<nType, nTheme, nDs, nReg, nPalette, nLabels, nCount, mergeVars, lifeVars>>

LabelInit ==
    /\ LifeIdle
    /\ nType \in LabelTypes
    /\ nTheme = "dark"
    /\ nDs \in {EmptyObj} \cup {[data |-> Arr(data)] : data \in ExampleData}
    /\ nReg = NoRegistrations
    /\ nOut = Undef
    /\ nPalette = <<>>
    /\ nLabels \in CallerLabels
    /\ nCount \in {0, 1}
    /\ MergeIdle

LabelNext ==
    \/ \E value \in HistValues : AddValue(value)
    \/ RenderLabels
    \/ RenderNoDatasets

LabelSpec == LabelInit /\ [][LabelNext]_vars

\* C17: the labels handed to the renderer for a histogram chart are the
\* labels of the bins of the first dataset, one per bin in bin order, whatever
\* labels the caller supplied, and none when the chart has no dataset; for
\* every other chart type they are the caller's labels.
C17_Labels ==
    nOut.t = "labelled"
    => IF ToLowerCase(nType) = "histogram"
       THEN IF nOut.datasets = <<>>
            THEN nOut.labels = <<>>
            ELSE LET bins == nOut.datasets[1].data.v
                 IN  /\ Len(nOut.labels) = Len(bins)
                     /\ \A i \in DOMAIN bins : nOut.labels[i] = bins[i].v.x
       ELSE nOut.labels = nLabels

\* A histogram of 1, 6, 10 whose caller supplied the labels Q1, Q2: the ten
\* bin labels are handed to the renderer.
C17_Witness ==
    /\ nOut.t = "labelled"
    /\ nType = "histogram"
    /\ nLabels = <<"Q1", "Q2">>
    /\ DataOf(nDs) = <<Num(1), Num(6), Num(10)>>
    /\ Len(nOut.labels) = 10
    /\ nOut.labels[1] = BinLabel(Num(1), Frac(19, 10))


-----------------------------------------------------------------------------
(* Mutation operations *)

\* The datasets sequence of chart c's ChartSpec, now and after the step.
C18_Datasets(c) == heap[config[c].datasets]
C18_DatasetsAfter(c) == heap'[config'[c].datasets]

\* C18: removeDataset(index) with an index below 0 or not below the dataset
\* count leaves the datasets sequence as it was, raises no error and schedules
\* no render; with an index in range it removes the dataset at that index and
\* keeps the others in their order.
C18_RemoveDataset ==
    [][\A c \in Charts, index \in -1..MaxDatasets :
          RemoveDataset(c, index)
          => LET before == C18_Datasets(c)
                 after == C18_DatasetsAfter(c)
             IN  IF index < 0 \/ index >= Len(before)
                 THEN /\ after = before
                      /\ heap' = heap
                      /\ thrown' = thrown
                      /\ pending' = pending
                      /\ chartInstance' = chartInstance
                 ELSE /\ Len(after) = Len(before) - 1
                      /\ \A i \in 1..Len(after) :
                            after[i] = IF i <= index THEN before[i] ELSE before[i + 1]
                      /\ thrown' = thrown]_vars

\* One mutation call was made and the caller's array, which held one dataset,
\* is empty: the call was removeDataset(0).
C18_Witness ==
    /\ mutations = 1
    /\ heap[CallerArray] = <<>>
    /\ \E c \in Charts : status[c] = "live" /\ config[c].datasets = CallerArray


\* C19: updateData(dsIndex, newData) with an index that names no dataset
\* changes nothing of the ChartSpec and schedules no render; with a valid
\* index it replaces the data of that dataset by newData when that is a
\* sequence and by the empty sequence otherwise, and leaves the dataset's
\* other fields, every other dataset, and the labels, type, theme, title and
\* palette as they were.
C19_UpdateData ==
    [][\A c \in Charts, dsIndex \in -1..MaxDatasets,
          newData \in {Arr(<<Num(5)>>), Str("none")} :
          UpdateData(c, dsIndex, newData)
          => LET before == C18_Datasets(c)
                 after == C18_DatasetsAfter(c)
             IN  /\ config' = config
                 /\ thrown' = thrown
                 /\ IF dsIndex < 0 \/ dsIndex >= Len(before)
                    THEN /\ heap' = heap
                         /\ pending' = pending
                         /\ chartInstance' = chartInstance
                    ELSE /\ Len(after) = Len(before)
                         /\ \A i \in DOMAIN before : i # dsIndex + 1 => after[i] = before[i]
                         /\ DOMAIN after[dsIndex + 1] = DOMAIN before[dsIndex + 1] \cup {"data"}
                         /\ \A key \in DOMAIN before[dsIndex + 1] \ {"data"} :
                               after[dsIndex + 1][key] = before[dsIndex + 1][key]
                         /\ after[dsIndex + 1].data
                               = IF newData.t = "array" THEN newData ELSE Arr(<<>>)]_vars

\* One mutation call was made and the only dataset of the caller's array has
\* its label and an empty data: the call was updateData(0, 'none').
C19_Witness ==
    /\ mutations = 1
    /\ heap[CallerArray] = <<[label |-> Str("A"), data |-> Arr(<<>>)]>>
    /\ \E c \in Charts : status[c] = "live" /\ config[c].datasets = CallerArray


-----------------------------------------------------------------------------
(* Theme toggling *)

\* The theme of a configuration and the default color each dataset of its
\* chartConfig was normalized with.
ThemeAndColors(cfg) ==
    LET chartConfig == BuildChartConfig(cfg, PureDatasets, nReg)
    IN  [theme |-> cfg.theme,
         palette |-> cfg.palette,
         colors |-> [i \in DOMAIN chartConfig.data.datasets |->
                        chartConfig.data.datasets[i].backgroundColor]]

\* The first render of the chart: what it rendered, no toggle made yet.
FirstRender ==
    /\ nOut.t = "undefined"
    /\ nOut' = [t |-> "themed", toggles |-> 0,
                first |-> ThemeAndColors(PureConfig),
                now |-> ThemeAndColors(PureConfig)]
    /\ UNCHANGED <<nType, nTheme, nDs, nReg, nPalette, nLabels, nCount, mergeVars, lifeVars>>

\* toggleTheme() and the render it calls (lines 241-244).
ToggleRendered ==
    /\ nOut.t = "themed"
    /\ nOut.toggles < MaxToggles
    /\ nTheme' = ToggledTheme(nTheme)
    /\ nOut' = [nOut EXCEPT
                  !.toggles = @ + 1,
                  !.now = ThemeAndColors([PureConfig EXCEPT !.theme = ToggledTheme(nTheme)])]
    /\ UNCHANGED <<nType, nDs, nReg, nPalette, nLabels, nCount, mergeVars, lifeVars>>

ThemeInit == PaletteInit

ThemeNext ==
    \/ \E color \in PaletteColors : AddPaletteColor(color)
    \/ AddPlainDataset
    \/ FirstRender
    \/ ToggleRendered

ThemeSpec == ThemeInit /\ [][ThemeNext]_vars

\* The built-in table of a theme, cycled over n datasets.
C20_TableColors(theme, n) ==
    LET table == IF theme = "light" THEN lightPalette ELSE darkPalette
    IN  [i \in 1..n |-> Str(table[((i - 1) % 10) + 1])]

\* C20: after two calls of toggleTheme() (any even number) the theme is the original one and,
\* with no explicit palette, the colors of the datasets at the render are those
\* of the first render; after one call (any odd number) the theme is the
\* other of dark/light
\* and the colors are those of that theme's table; an explicit palette, and the
\* colors taken from it, are the same after every toggle.
C20_ToggleTheme ==
    nOut.t = "themed"
    => /\ nOut.now.theme = nTheme
       /\ nOut.now.palette = nOut.first.palette
       /\ nOut.toggles % 2 = 0 => /\ nOut.now.theme = nOut.first.theme
                                  /\ nOut.now.colors = nOut.first.colors
       /\ nOut.toggles % 2 = 1
             => /\ nOut.now.theme \in {"dark", "light"} \ {nOut.first.theme}
                /\ nOut.first.theme \in {"dark", "light"}
                /\ nPalette = <<>>
                      => nOut.now.colors = C20_TableColors(nOut.now.theme, nCount + 1)
       /\ nPalette # <<>> => nOut.now.colors = nOut.first.colors

\* Two toggles of a chart without explicit palette whose colors differed
\* after the first toggle.
C20_Witness ==
    /\ nOut.t = "themed"
    /\ nOut.toggles = 2
    /\ nPalette = <<>>
    /\ nCount >= 1
    /\ nOut.now.colors = C20_TableColors(nOut.first.theme, nCount + 1)
    /\ nOut.now.colors # C20_TableColors(ToggledTheme(nOut.first.theme), nCount + 1)


-----------------------------------------------------------------------------
(* The renderer objects: destroy, resize, rebuild *)

\* C21: a destroy() on a chart that was destroyed before raises no error and
\* calls neither destroy() nor resize() on a renderer object that is not
\* live; after every destroy() the chart holds no reference, no renderer
\* object of the chart is left live, and none had its destroy() called twice.
C21_DestroyTwice ==
    [][\A c \in Charts :
          Destroy(c)
          => /\ thrown' = thrown
             /\ renderer'[c].stale = 0
             /\ renderer'[c].current = "none"
             /\ renderer'[c].orphans = 0
             /\ chartInstance'[c] = Null
             /\ status[c] = "destroyed"
                   => /\ renderer'[c].stale = renderer[c].stale
                      /\ resized' = resized
                      /\ chartInstance[c] = Null => renderer'[c].current = renderer[c].current]_vars

\* destroy() was called twice on a chart that had a rendered instance.
C21_Witness ==
    \E c \in Charts :
        /\ renderer[c].destroys = 2
        /\ renderer[c].released
        /\ status[c] = "destroyed"
        /\ chartInstance[c] = Null
        /\ pending[c] = 0
        /\ windowChart

\* C22: a size-change notification calls resize() on the renderer object the
\* chart refers to when there is one, and that object is live; when the chart
\* refers to none the notification changes nothing; it throws nothing and
\* never calls resize() on an object whose destroy() has run.
C22_ResizeNotification ==
    [][\A c \in Charts :
          ResizeNotification(c)
          => /\ thrown' = thrown
             /\ chartInstance' = chartInstance
             /\ renderer' = renderer
             /\ renderer[c].stale = 0
             /\ IF chartInstance[c] = Null
                THEN /\ renderer[c].current = "none"
                     /\ resized' = resized
                ELSE /\ renderer[c].current = "live"
                     /\ resized' = [resized EXCEPT ![c] = TRUE]]_vars

\* A notification reached the instance that replaced an earlier one.
C22_Witness ==
    \E c \in Charts :
        /\ resized[c]
        /\ observing[c]
        /\ chartInstance[c] # Null
        /\ renderer[c].current = "live"
        /\ renderer[c].released


\* The renderer objects of chart c that were created and not destroyed.
C27_LiveInstances(c) ==
    renderer[c].orphans + (IF renderer[c].current = "live" THEN 1 ELSE 0)

\* C27: in every reachable state a chart has at most one renderer object that
\* was created and not destroyed, and it is the one the chart refers to: each
\* build destroys the object it replaces before it creates the next, whatever
\* the number of Render polls that fire one after another.
C27_AtMostOneRendered ==
    \A c \in Charts :
        /\ C27_LiveInstances(c) <= 1
        /\ renderer[c].stale = 0
        /\ chartInstance[c] # Null <=> renderer[c].current = "live"

\* A chart that was never destroyed and never mutated refers to a live object
\* that replaced an earlier one, with a further poll still pending.
C27_Witness ==
    \E c \in Charts :
        /\ renderer[c].current = "live"
        /\ renderer[c].released
        /\ renderer[c].destroys = 0
        /\ mutations = 0
        /\ pending[c] > 0


-----------------------------------------------------------------------------
(* Construction *)

\* C23: constructing a chart on a target that is no canvas element throws the
\* constructor's error and changes nothing else: no chart object comes to
\* exist, no script element is added and no load started, no observer is set
\* up, no canvas attribute is set, and the registries stay as they were.
C23_InvalidCanvas ==
    [][\A target \in Targets \ {"canvas"}, c \in 1..MaxReadyCharts, initialConfig \in InitialConfigs :
          ConstructOn(target, c, initialConfig)
          => /\ "InvalidCanvas" \in thrown'
             /\ thrown' \ {"InvalidCanvas"} = thrown \ {"InvalidCanvas"}
             /\ status' = status
             /\ config' = config
             /\ canvas' = canvas
             /\ chartInstance' = chartInstance
             /\ pending' = pending
             /\ observing' = observing
             /\ scriptElements' = scriptElements
             /\ loading' = loading
             /\ chartCoreInitiated' = chartCoreInitiated
             /\ loadedScripts' = loadedScripts
             /\ registeredPlugins' = registeredPlugins
             /\ registry' = registry
             /\ windowChart' = windowChart]_vars

\* The constructor threw for a target that is no canvas, on a page that has
\* registered a plugin and holds a chart built on a canvas.
C23_Witness ==
    /\ "InvalidCanvas" \in thrown
    /\ status[1] = "live"
    /\ registeredPlugins # <<>>

\* C24: for every configuration the constructor and updateType produce, null
\* given as options and datasets with wrongly typed fields included, a
\* render's normalization and option merge end with a chartConfig and throw
\* nothing.
C24_PipelineCompletes ==
    nOut.t # "TypeError"

\* The ChartSpec a construction without any configuration is documented to
\* produce; its datasets are those of the array the chart refers to.
C25_Defaults ==
    [type |-> "line", labels |-> <<>>, titleText |-> "", theme |-> "dark",
     palette |-> <<>>, options |-> Obj(EmptyObj), ariaLabel |-> ""]

\* C25: constructing a chart on a canvas element while the core library has
\* not been initiated throws nothing, yields a live chart (with the documented
\* defaults when no configuration is given) and starts one load of the core
\* script, whether or not the renderer global exists.
C25_ConstructBeforeCore ==
    [][\A c \in 1..MaxReadyCharts, initialConfig \in InitialConfigs :
          (~chartCoreInitiated /\ Construct(c, initialConfig))
          => /\ thrown' = thrown
             /\ status'[c] = "live"
             /\ observing'[c]
             /\ loading' = AddLoads(loading, {CoreLoad})
             /\ initialConfig = EmptyObj
                   => /\ [k \in DOMAIN C25_Defaults |-> config'[c][k]] = C25_Defaults
                      /\ heap'[config'[c].datasets] = <<>>]_vars


-----------------------------------------------------------------------------
(* Ownership of the ChartSpec *)

\* A step of addDataset, removeDataset or updateData on chart c.
C26_DatasetMutation(c) ==
    \/ \E newDs \in LifeDatasets : AddDataset(c, newDs)
    \/ \E index \in -1..MaxDatasets : RemoveDataset(c, index)
    \/ \E dsIndex \in -1..MaxDatasets, newData \in {Arr(<<Num(5)>>), Str("none")} :
          UpdateData(c, dsIndex, newData)

\* C26: addDataset, removeDataset and updateData on one chart change neither
\* the datasets of any other chart nor the datasets array of the caller's
\* configuration object, also when two charts were constructed from the same
\* array.
C26_OwnsItsChartSpec ==
    [][\A c \in Charts :
          C26_DatasetMutation(c)
          => /\ heap'[CallerArray] = heap[CallerArray]
             /\ \A other \in Charts \ {c} :
                   status[other] = "live"
                   => heap'[config[other].datasets] = heap[config[other].datasets]]_vars


=============================================================================
